---- MODULE Spec2Model ----
(***************************************************************************)
(* A model of the aliasing / mutation bookkeeping of AOT Autograd          *)
(* (torch/_functorch/aot_autograd.py): the metadata analysis, the          *)
(* duplicate-argument wrapper, the synthetic-base wrapper and the runtime  *)
(* epilogue.  Python lists are sequences; Python indices are kept 0-based  *)
(* as values and read with At.                                             *)
(***************************************************************************)
EXTENDS Integers, Sequences, FiniteSets, TLC

\* ------------------------------------------------------------------ bounds
\* longest argument list and longest output list of the traced function
MaxArgs == 3
MaxOuts == 2

\* ------------------------------------------------------------- sequences
At(s, i) == s[i + 1]

Range(s) == {s[i] : i \in 1..Len(s)}

Idx0(s) == [i \in 1..Len(s) |-> i - 1]

\* [i for i, x in enumerate(s) if P(x)]
IndicesWhere(s, P(_)) == SelectSeq(Idx0(s), LAMBDA i : P(At(s, i)))

\* len([x for x in s if P(x)])
CountWhere(s, P(_)) == Len(SelectSeq(s, P))

\* list.index(x)
IndexOf(s, x) == (CHOOSE i \in 1..Len(s) : s[i] = x /\ \A j \in 1..(i - 1) : s[j] # x) - 1

RECURSIVE Concat(_)
Concat(ss) == IF Len(ss) = 0 THEN <<>> ELSE Head(ss) \o Concat(Tail(ss))

SeqsUpTo(S, n) == UNION {[1..k -> S] : k \in 0..n}

Max(S) == CHOOSE x \in S : \A y \in S : y <= x

\* Optional[int]: None is the empty set, an index k is {k}
None == {}
Some(k) == {k}
Get(o) == CHOOSE k \in o : TRUE

\* ------------------------------------------------------------- data model
OutputTypes == {"non_alias", "alias_of_input", "is_input",
                "alias_of_intermediate_save_as_output", "alias_of_intermediate",
                "alias_of_intermediate_base_is_user_output", "unsafe_view_alias"}

InputAliasInfo(leaf, data, meta) ==
    [is_leaf |-> leaf, mutates_data |-> data, mutates_metadata |-> meta]

OutputAliasInfo(ot, rt, b) == [output_type |-> ot, raw_type |-> rt, base_idx |-> b]

ViewAndMutationMeta(ii, rgi, oi, nib, keep, tt) ==
    [input_info |-> ii, requires_grad_info |-> rgi, output_info |-> oi,
     num_intermediate_bases |-> nib, keep_input_mutations |-> keep,
     traced_tangents |-> tt]

IsMutated(x) == x.mutates_metadata \/ x.mutates_data

\* the indices of the inputs with a data mutation only
mutated_inp_indices_Data(m) == IndicesWhere(m.input_info, LAMBDA x : x.mutates_data)

\* ViewAndMutationMeta.__post_init__
mutated_inp_indices(m) == IndicesWhere(m.input_info, IsMutated)

mutated_inp_runtime_indices(m) ==
    IndicesWhere(m.input_info,
        LAMBDA x : x.mutates_metadata \/ (~m.keep_input_mutations /\ x.mutates_data))

IsAliasType(ot) == ot \notin {"non_alias", "unsafe_view_alias"}

aliased_out_indices(m) == IndicesWhere(m.output_info, LAMBDA o : IsAliasType(o.output_type))

num_outputs(m) == Len(m.output_info)

\* num_outputs_aliased counting the outputs that alias an input only
num_outputs_aliased_ToInputs(m) ==
    CountWhere(m.output_info, LAMBDA o : o.output_type \in {"alias_of_input", "is_input"})

num_outputs_aliased(m) ==
    CountWhere(m.output_info, LAMBDA o : o.output_type \in {"alias_of_input", "is_input"})
    + CountWhere(m.output_info, LAMBDA o : o.output_type \in
          {"alias_of_intermediate", "alias_of_intermediate_save_as_output",
           "alias_of_intermediate_base_is_user_output"})

num_mutated_data_inputs(m) == CountWhere(m.input_info, LAMBDA x : x.mutates_data)

num_mutated_metadata_inputs(m) == CountWhere(m.input_info, LAMBDA x : x.mutates_metadata)

num_mutated_metadata_only_inputs(m) ==
    CountWhere(m.input_info, LAMBDA x : ~x.mutates_data /\ x.mutates_metadata)

num_mutated_inputs(m) == num_mutated_data_inputs(m) + num_mutated_metadata_only_inputs(m)

\* ViewAndMutationMeta.__eq__ (a traced tangent is kept as its shape)
MetaEq(a, b) ==
    /\ a.input_info = b.input_info
    /\ a.output_info = b.output_info
    /\ a.requires_grad_info = b.requires_grad_info
    /\ a.num_intermediate_bases = b.num_intermediate_bases
    /\ a.keep_input_mutations = b.keep_input_mutations
    /\ Len(a.traced_tangents) = Len(b.traced_tangents)
    /\ \A i \in 1..Len(a.traced_tangents) : a.traced_tangents[i] = b.traced_tangents[i]

\* ------------------------------------------------------ values and the heap
\* A Python object is an id; the heap gives a tensor its storage, its ._base
\* (0 is None), requires_grad, is_leaf, dtype and its view of the storage
\* (off, len); a non-tensor object has a value.
Tensor(st, base, rg, leaf, dtype, off, len) ==
    [tensor |-> TRUE, st |-> st, base |-> base, rg |-> rg, leaf |-> leaf,
     dtype |-> dtype, off |-> off, len |-> len, val |-> 0]

Scalar(v) ==
    [tensor |-> FALSE, st |-> 0, base |-> 0, rg |-> FALSE, leaf |-> FALSE,
     dtype |-> "int", off |-> 0, len |-> 0, val |-> v]

\* hash / == of an object as a dict or set key: a tensor by identity, a number by value
Key(h, x) == IF h[x].tensor THEN <<"t", x>> ELSE <<"v", h[x].val>>

\* has_same_metadata
has_same_metadata(t1, t2) == t1.off = t2.off /\ t1.len = t2.len

\* ------------------------------------------------------ the traced function
\* The user function: mut[i] is the in-place mutation it applies through its
\* i-th parameter, outs its returned values: the parameter itself ("inp"), a
\* fresh view of it ("view"), a new tensor ("fresh"), a graph intermediate
\* ("int") or a view of one ("vint").
MutKinds == {"none", "data", "meta", "both"}
HasData(k) == k \in {"data", "both"}
HasMeta(k) == k \in {"meta", "both"}

OutDesc(kind, idx) == [kind |-> kind, idx |-> idx]

\* How a parameter of the function is bound to an input of the traced callable:
\* the input itself, or a view regenerated from it (unpack_synthetic_bases).
Bind(src, view) == [src |-> src, view |-> view]

IdentityBind(n) == [i \in 1..n |-> Bind(i - 1, FALSE)]

\* to_fun memoises on the tensor: one functional wrapper per tensor object
SameWrapper(inputs, p, q) == At(inputs, p) = At(inputs, q)

TracedMutatesData(h, inputs, bind, fn, p) ==
    /\ h[At(inputs, p)].tensor
    /\ \E i \in 1..Len(bind) : SameWrapper(inputs, bind[i].src, p) /\ HasData(fn.mut[i])

TracedMutatesMetadata(h, inputs, bind, fn, p) ==
    /\ h[At(inputs, p)].tensor
    /\ \E i \in 1..Len(bind) :
          ~bind[i].view /\ SameWrapper(inputs, bind[i].src, p) /\ HasMeta(fn.mut[i])

NoTensor == [tensor |-> FALSE, st |-> <<"n", 0>>, id |-> <<"n", 0>>, has_base |-> FALSE,
             base |-> <<"n", 0>>, rg |-> FALSE, base_rg |-> FALSE]

TracedTensor(st, id, has_base, base, rg, base_rg) ==
    [tensor |-> TRUE, st |-> st, id |-> id, has_base |-> has_base, base |-> base,
     rg |-> rg, base_rg |-> base_rg]

\* the i-th parameter as the function sees it (functional storage and object
\* identity as the analysis observes them)
TracedParam(h, inputs, bind, i) ==
    LET b == At(bind, i)
        x == At(inputs, b.src) IN
    IF ~h[x].tensor THEN NoTensor
    ELSE IF b.view THEN
        TracedTensor(<<"w", x>>, <<"p", i>>, TRUE, <<"w", x>>, h[x].rg, h[x].rg)
    ELSE
        TracedTensor(<<"w", x>>, <<"w", x>>, h[x].base # 0, <<"b", h[x].base>>, h[x].rg,
                     h[x].base # 0 /\ h[h[x].base].rg)

\* the value the function returns at output position pos
TracedOut(h, inputs, bind, grad, d, pos) ==
    CASE d.kind = "inp" -> TracedParam(h, inputs, bind, d.idx)
      [] d.kind = "view" ->
            LET x == At(inputs, At(bind, d.idx).src) IN
            IF ~h[x].tensor THEN NoTensor
            ELSE TracedTensor(<<"w", x>>, <<"o", pos>>, TRUE, <<"w", x>>, h[x].rg, h[x].rg)
      [] d.kind = "fresh" -> TracedTensor(<<"f", pos>>, <<"o", pos>>, FALSE, <<"n", 0>>, grad, FALSE)
      [] d.kind = "int" -> TracedTensor(<<"i", d.idx>>, <<"i", d.idx>>, FALSE, <<"n", 0>>, grad, FALSE)
      [] d.kind = "vint" -> TracedTensor(<<"i", d.idx>>, <<"o", pos>>, TRUE, <<"i", d.idx>>, grad, grad)

\* flat_f_outs of f(*flat_f_args); extra lists the parameters a wrapper appends
\* to the outputs (aot_wrapper_synthetic_base.wrapped_flat_fn)
TracedOuts(h, inputs, bind, grad, fn, extra) ==
    [k \in 1..(Len(fn.outs) + Len(extra)) |->
        IF k <= Len(fn.outs) THEN TracedOut(h, inputs, bind, grad, fn.outs[k], k - 1)
        ELSE TracedParam(h, inputs, bind, extra[k - Len(fn.outs)])]

\* ------------------------------- run_functionalized_fw_and_collect_metadata
\* the loop over the inputs: one InputAliasInfo per input
AnalyzeInput(h, inputs, bind, fn, p) ==
    LET arg == h[At(inputs, p)]
        data == TracedMutatesData(h, inputs, bind, fn, p)
        meta == TracedMutatesMetadata(h, inputs, bind, fn, p) IN
    \* arg is new_arg when nothing was mutated; a metadata-only mutation keeps the
    \* storage; a data mutation gives a new storage
    IF ~(data \/ meta) THEN InputAliasInfo(arg.tensor /\ arg.leaf, FALSE, FALSE)
    ELSE IF ~data THEN InputAliasInfo(arg.tensor /\ arg.leaf, FALSE, TRUE)
    ELSE InputAliasInfo(arg.tensor /\ arg.leaf, TRUE, meta)

\* inp_storage_refs: a dict comprehension, so the last input on a storage wins
inp_storage_refs(h, inputs) ==
    [st \in {<<"w", inputs[i]>> : i \in {j \in 1..Len(inputs) : h[inputs[j]].tensor}} |->
        Max({i - 1 : i \in {j \in 1..Len(inputs) : h[inputs[j]].tensor /\ <<"w", inputs[j]>> = st}})]

inp_tensor_ids(h, inputs) == {<<"w", inputs[i]>> : i \in {j \in 1..Len(inputs) : h[inputs[j]].tensor}}

\* out_tensor_ids: id(o) -> index, the last output with that id wins
out_tensor_ids(outs) ==
    [id \in {outs[i].id : i \in 1..Len(outs)} |-> Max({i - 1 : i \in {j \in 1..Len(outs) : outs[j].id = id}})]

out_tensor_alias_counts(outs, st) == Cardinality({i \in 1..Len(outs) : outs[i].tensor /\ outs[i].st = st})

\* the loop over the outputs; bases is the list of ids of intermediate_bases so far
RECURSIVE ClassifyOutputs(_, _, _, _, _, _)
ClassifyOutputs(h, inputs, outs, k, bases, acc) ==
    IF k > Len(outs) THEN [output_info |-> acc, intermediate_bases |-> bases]
    ELSE
    LET o == outs[k]
        refs == inp_storage_refs(h, inputs)
        raw == IF o.tensor THEN "Tensor" ELSE "int" IN
    IF o.tensor /\ o.st \in DOMAIN refs THEN
        ClassifyOutputs(h, inputs, outs, k + 1, bases,
            Append(acc, OutputAliasInfo(
                IF o.id \in inp_tensor_ids(h, inputs) THEN "is_input" ELSE "alias_of_input",
                raw, Some(refs[o.st]))))
    ELSE IF o.tensor /\ o.has_base /\ o.rg /\ o.base_rg THEN
        IF out_tensor_alias_counts(outs, o.st) = 1 THEN
            ClassifyOutputs(h, inputs, outs, k + 1, bases,
                Append(acc, OutputAliasInfo("unsafe_view_alias", raw, None)))
        ELSE IF o.base \in DOMAIN out_tensor_ids(outs) THEN
            ClassifyOutputs(h, inputs, outs, k + 1, bases,
                Append(acc, OutputAliasInfo("alias_of_intermediate_base_is_user_output", raw,
                                            Some(out_tensor_ids(outs)[o.base]))))
        ELSE IF o.base \in Range(bases) THEN
            ClassifyOutputs(h, inputs, outs, k + 1, bases,
                Append(acc, OutputAliasInfo("alias_of_intermediate", raw,
                                            Some(IndexOf(bases, o.base)))))
        ELSE
            ClassifyOutputs(h, inputs, outs, k + 1, Append(bases, o.base),
                Append(acc, OutputAliasInfo("alias_of_intermediate_save_as_output", raw,
                                            Some(Len(bases)))))
    ELSE
        ClassifyOutputs(h, inputs, outs, k + 1, bases,
            Append(acc, OutputAliasInfo("non_alias", raw, None)))

IsTangentOutput(o) == ~IsAliasType(o.output_type) /\ o.raw_type = "Tensor"

\* a traced tangent, kept as the shape __eq__ compares: an input's length, 0 for
\* an output or an intermediate base
InputTangents(h, inputs, input_info) ==
    [k \in 1..CountWhere(input_info, LAMBDA x : x.mutates_data) |->
        h[At(inputs, At(IndicesWhere(input_info, LAMBDA x : x.mutates_data), k - 1))].len]

Zeros(n) == [k \in 1..n |-> 0]

\* the ViewAndMutationMeta inner returns, from input_info, the outputs and what
\* the loop over the outputs collected
CollectedMetadata(h, inputs, keep, input_info, outs, c) ==
    LET input_requires_grad_info ==
            [k \in 1..CountWhere(input_info, IsMutated) |->
                h[At(inputs, At(IndicesWhere(input_info, IsMutated), k - 1))].rg]
        output_requires_grad_info == [k \in 1..Len(outs) |-> outs[k].tensor /\ outs[k].rg]
        traced_tangents ==
            InputTangents(h, inputs, input_info)
            \o Zeros(CountWhere(c.output_info, IsTangentOutput))
            \o Zeros(Len(c.intermediate_bases)) IN
    ViewAndMutationMeta(input_info, input_requires_grad_info \o output_requires_grad_info,
                        c.output_info, Len(c.intermediate_bases), keep, traced_tangents)

\* inner from the loop over the outputs on
AnalyzeOutputs(h, inputs, keep, input_info, outs) ==
    CollectedMetadata(h, inputs, keep, input_info, outs, ClassifyOutputs(h, inputs, outs, 1, <<>>, <<>>))

\* inner(*flat_args): the metadata of the callable that binds the function's
\* parameters to inputs by bind and appends the parameters in extra to its outputs
Analyze(h, inputs, bind, grad, fn, extra, keep) ==
    AnalyzeOutputs(h, inputs, keep,
                   [i \in 1..Len(inputs) |-> AnalyzeInput(h, inputs, bind, fn, i - 1)],
                   TracedOuts(h, inputs, bind, grad, fn, extra))

\* ---------------------------------------------------------------- results
\* A call either returns a value or raises
Ok(v) == [err |-> "", val |-> v]
Raise(e) == [err |-> e, val |-> <<>>]

\* ------------------------------------------------------- merge_view_inputs
are_differentiable_views(h, view1, view2) ==
    IF view1 = view2 THEN TRUE
    ELSE IF h[view1].base = 0 /\ h[view2].base = 0 THEN FALSE
    ELSE IF h[view1].base = h[view2].base \/ h[view1].base = view2 \/ view1 = h[view2].base THEN TRUE
    ELSE FALSE

same_dtype_views(h, view1, view2) ==
    IF h[view1].dtype # h[view2].dtype THEN FALSE
    ELSE IF h[view1].base # 0 /\ h[view1].dtype # h[h[view1].base].dtype THEN FALSE
    ELSE IF h[view2].base # 0 /\ h[view2].dtype # h[h[view2].base].dtype THEN FALSE
    ELSE TRUE

\* an entry of the calling-convention list: an inner index, or (base index, view)
InnerIdx(i) == [tuple |-> FALSE, idx |-> i, view |-> 0]
BaseView(b, v) == [tuple |-> TRUE, idx |-> b, view |-> v]

\* storage_ref_to_idx: the indices of the tensors on one storage, in order
StorageGroup(h, fwd_inputs, st) ==
    SelectSeq(Idx0(fwd_inputs), LAMBDA i : h[At(fwd_inputs, i)].tensor /\ h[At(fwd_inputs, i)].st = st)

\* the keys of storage_ref_to_idx in insertion order (first tensor on each storage)
StorageOrder(h, fwd_inputs) ==
    LET firsts == SelectSeq(Idx0(fwd_inputs), LAMBDA i :
            /\ h[At(fwd_inputs, i)].tensor
            /\ \A j \in 0..(i - 1) :
                 ~(h[At(fwd_inputs, j)].tensor /\ h[At(fwd_inputs, j)].st = h[At(fwd_inputs, i)].st)) IN
    [k \in 1..Len(firsts) |-> h[At(fwd_inputs, firsts[k])].st]

NeedsSyntheticBase(mutated_input_info, group) ==
    ~(Len(group) <= 1 \/ ~\E k \in 1..Len(group) : At(mutated_input_info, group[k]).mutates_data)

\* the asserts on consecutive members only, without those on the bases
GroupAccepted_PairsOnly(h, fwd_inputs, group, is_inference) ==
    \A k \in 1..(Len(group) - 1) :
        /\ is_inference \/ are_differentiable_views(h, At(fwd_inputs, group[k]), At(fwd_inputs, group[k + 1]))
        /\ same_dtype_views(h, At(fwd_inputs, group[k]), At(fwd_inputs, group[k + 1]))

\* the asserts on a group that is replaced by a synthetic base
GroupAccepted(h, fwd_inputs, group, is_inference) ==
    LET non_none_bases == SelectSeq(group, LAMBDA i : h[At(fwd_inputs, i)].base # 0)
        aliases_with_none_bases == SelectSeq(group, LAMBDA i : h[At(fwd_inputs, i)].base = 0) IN
    /\ \A k \in 1..(Len(group) - 1) :
          /\ is_inference \/ are_differentiable_views(h, At(fwd_inputs, group[k]), At(fwd_inputs, group[k + 1]))
          /\ same_dtype_views(h, At(fwd_inputs, group[k]), At(fwd_inputs, group[k + 1]))
    /\ Len(non_none_bases) # 0 =>
          /\ \A k \in 2..Len(non_none_bases) :
                h[At(fwd_inputs, non_none_bases[k])].base = h[At(fwd_inputs, non_none_bases[1])].base
          /\ \A k \in 1..Len(aliases_with_none_bases) :
                At(fwd_inputs, aliases_with_none_bases[k]) = h[At(fwd_inputs, non_none_bases[1])].base

\* storage elements of the model's storages
StorageElems == {0, 1}

\* the storages: of a and its view, of the other tensor, and one no argument is on
Storages == {1, 2, 3}

\* a synthetic base that is allocated and not set_ to the storage of the aliases
NewSyntheticBase_OwnStorage(h, example_alias) ==
    Tensor(3, 0, FALSE, TRUE, h[example_alias].dtype, 0, Cardinality(StorageElems))

\* torch.empty((0,)).set_(storage): a new 1-D tensor over the whole storage
NewSyntheticBase(h, example_alias) ==
    Tensor(h[example_alias].st, 0, FALSE, TRUE, h[example_alias].dtype, 0, Cardinality(StorageElems))

\* the synthetic base of a group: the common ._base, or a new object (id fresh + storage)
SyntheticBaseOf(h, fwd_inputs, group, fresh) ==
    LET non_none_bases == SelectSeq(group, LAMBDA i : h[At(fwd_inputs, i)].base # 0) IN
    IF Len(non_none_bases) = 0 THEN fresh + h[At(fwd_inputs, group[1])].st
    ELSE h[At(fwd_inputs, non_none_bases[1])].base

\* post_processed_calling_convention_meta: a list of len(meta) entries, filled by
\* index; Python raises IndexError for a key past its end
PostProcess(meta) ==
    IF \E k \in DOMAIN meta : k >= Cardinality(DOMAIN meta) THEN Raise("IndexError")
    ELSE Ok([i \in 1..Cardinality(DOMAIN meta) |->
                IF (i - 1) \in DOMAIN meta THEN meta[i - 1] ELSE InnerIdx(-1)])

MergedGroupsOrder(h, fwd_inputs, mutated_input_info) ==
    SelectSeq(StorageOrder(h, fwd_inputs),
              LAMBDA st : NeedsSyntheticBase(mutated_input_info, StorageGroup(h, fwd_inputs, st)))

\* other_args in the order of the arguments
OtherArgsOrder_Original(h, fwd_inputs, mutated_input_info) ==
    SelectSeq(Idx0(fwd_inputs), LAMBDA i :
        \/ ~h[At(fwd_inputs, i)].tensor
        \/ ~NeedsSyntheticBase(mutated_input_info, StorageGroup(h, fwd_inputs, h[At(fwd_inputs, i)].st)))

OtherArgsOrder(h, fwd_inputs, mutated_input_info) ==
    LET order == StorageOrder(h, fwd_inputs)
        unmerged == SelectSeq(order, LAMBDA st :
                        ~NeedsSyntheticBase(mutated_input_info, StorageGroup(h, fwd_inputs, st))) IN
    \* non-tensors are appended while the inputs are scanned, the tensors of the
    \* groups left alone afterwards, storage by storage
    SelectSeq(Idx0(fwd_inputs), LAMBDA i : ~h[At(fwd_inputs, i)].tensor)
    \o Concat([k \in 1..Len(unmerged) |-> StorageGroup(h, fwd_inputs, unmerged[k])])

\* inner_calling_convention_meta when the loop over other_args is done: a dict
\* from the outer index to the entry
CallingConventionMeta(h, fwd_inputs, groups, base_args, other_args) ==
    LET \* arg_to_old_idx_map: keyed by the argument, the last index wins
        arg_to_old_idx_map(a) ==
            Max({i \in 0..(Len(fwd_inputs) - 1) : Key(h, At(fwd_inputs, i)) = Key(h, a)})
        view_keys == UNION {Range(groups[k]) : k \in 1..Len(groups)}
        other_keys == {arg_to_old_idx_map(other_args[k]) : k \in 1..Len(other_args)} IN
    [i \in view_keys \cup other_keys |->
        IF i \in other_keys THEN
            \* later other_args overwrite earlier entries for the same key
            InnerIdx(Len(base_args) - 1
                     + Max({k \in 1..Len(other_args) : arg_to_old_idx_map(other_args[k]) = i}))
        ELSE LET g == CHOOSE k \in 1..Len(groups) : i \in Range(groups[k]) IN
             BaseView(g - 1, At(fwd_inputs, i))]

\* the return of merge_view_inputs when there are bases
ReturnedCallingConvention(base_args, other_args, new, post) ==
    IF post.err # "" THEN post
    ELSE IF \E k \in 1..Len(post.val) : post.val[k] = InnerIdx(-1) THEN Raise("AssertionError")
    ELSE Ok([args |-> base_args \o other_args, none |-> FALSE, info |-> post.val, new |-> new])

\* merge_view_inputs after the loop over the storages
NewCallingConvention(h, fwd_inputs, groups, base_args, other_args) ==
    LET created == {k \in 1..Len(groups) : base_args[k] \notin DOMAIN h}
        new == [x \in {base_args[k] : k \in created} |->
                   NewSyntheticBase(h, At(fwd_inputs,
                       groups[CHOOSE k \in created : base_args[k] = x][1]))] IN
    IF Len(base_args) = 0 THEN Ok([args |-> fwd_inputs, none |-> TRUE, info |-> <<>>, new |-> new])
    ELSE ReturnedCallingConvention(base_args, other_args, new,
             PostProcess(CallingConventionMeta(h, fwd_inputs, groups, base_args, other_args)))

\* the loop over storage_ref_to_idx.values(): groups lists the groups that get a
\* synthetic base, other_idx the outer indices of other_args
MergeGroups(h, fwd_inputs, is_inference, fresh, groups, other_idx) ==
    IF \E k \in 1..Len(groups) : ~GroupAccepted(h, fwd_inputs, groups[k], is_inference)
    THEN Raise("AssertionError")
    ELSE NewCallingConvention(h, fwd_inputs, groups,
             [k \in 1..Len(groups) |-> SyntheticBaseOf(h, fwd_inputs, groups[k], fresh)],
             [k \in 1..Len(other_idx) |-> At(fwd_inputs, other_idx[k])])

GroupsOf(h, fwd_inputs, merged) == [k \in 1..Len(merged) |-> StorageGroup(h, fwd_inputs, merged[k])]

\* merge_view_inputs: val.info is None (<<>> with none = TRUE) or the list;
\* val.new gives the tensors it created
merge_view_inputs(h, fwd_inputs, mutated_input_info, is_inference, fresh) ==
    IF Len(fwd_inputs) # Len(mutated_input_info) THEN Raise("AssertionError")
    ELSE MergeGroups(h, fwd_inputs, is_inference, fresh,
                     GroupsOf(h, fwd_inputs, MergedGroupsOrder(h, fwd_inputs, mutated_input_info)),
                     OtherArgsOrder(h, fwd_inputs, mutated_input_info))

\* ------------------------------------------------------ aot_wrapper_dedupe
\* the object a.detach().requires_grad_(a.requires_grad) that replaces the
\* duplicate at position i
DetachedId(i) == 100 + i

Detached(h, a) == Tensor(h[a].st, 0, h[a].rg, TRUE, h[a].dtype, h[a].off, h[a].len)

\* a duplicate is recognised only right after the argument it repeats
IsLaterOccurrence_Adjacent(h, flat_args, i) ==
    /\ h[At(flat_args, i)].tensor
    /\ i > 0 /\ At(flat_args, i - 1) = At(flat_args, i)

IsLaterOccurrence(h, flat_args, i) ==
    /\ h[At(flat_args, i)].tensor
    /\ \E j \in 0..(i - 1) : At(flat_args, j) = At(flat_args, i)

\* Strategy 1 applies: ok is still True after the loop
Strategy1Ok(h, flat_args, fw_metadata) ==
    \A i \in 0..(Len(flat_args) - 1) :
        IsLaterOccurrence(h, flat_args, i) =>
            /\ ~At(fw_metadata.input_info, i).mutates_data
            /\ ~At(fw_metadata.input_info, i).mutates_metadata

leaf_flat_args(h, flat_args) ==
    [k \in 1..Len(flat_args) |->
        IF IsLaterOccurrence(h, flat_args, k - 1) THEN DetachedId(k - 1) ELSE flat_args[k]]

\* seen_args is keyed by the argument: t in seen_args
InSeenArgs(h, flat_args, i) ==
    \E j \in 0..(i - 1) : Key(h, At(flat_args, j)) = Key(h, At(flat_args, i))

keep_arg_mask(h, flat_args) == [k \in 1..Len(flat_args) |-> ~InSeenArgs(h, flat_args, k - 1)]

\* add_dupe_map[i]: the deduplicated position of the first argument equal to flat_args[i]
add_dupe_map(h, flat_args) ==
    [i \in 0..(Len(flat_args) - 1) |->
        LET first == CHOOSE j \in 0..i :
                /\ Key(h, At(flat_args, j)) = Key(h, At(flat_args, i))
                /\ \A l \in 0..(j - 1) : Key(h, At(flat_args, l)) # Key(h, At(flat_args, i)) IN
        Cardinality({l \in 0..(first - 1) : ~InSeenArgs(h, flat_args, l)})]

unique_args(h, flat_args) == CountWhere(keep_arg_mask(h, flat_args), LAMBDA b : b)

\* [t for t, keep in zip(args, keep_arg_mask) if keep]
remove_dupe_args(args, mask) ==
    LET n == IF Len(args) < Len(mask) THEN Len(args) ELSE Len(mask)
        kept == SelectSeq([i \in 1..n |-> i], LAMBDA i : mask[i]) IN
    [k \in 1..Len(kept) |-> args[kept[k]]]

\* [args[add_dupe_map[i]] for i in range(duped_arg_len)]
add_dupe_args(args, map, duped_arg_len) ==
    IF \E i \in 0..(duped_arg_len - 1) : map[i] >= Len(args) THEN Raise("IndexError")
    ELSE Ok([k \in 1..duped_arg_len |-> At(args, map[k - 1])])

\* ----------------------------------------------------- remove_dupe_metadata
dupe_to_dedup_idx(mask) ==
    [k \in 1..Len(mask) |-> Cardinality({j \in 2..k : mask[j]})]

\* base_idx=None if o.base_idx is None else dupe_to_dedup_idx[o.base_idx]
\* the remapped index read through Python truthiness: index 0 is taken for None
dedup_base_idx_Falsy(d2d, o) ==
    IF o.base_idx = None \/ At(d2d, Get(o.base_idx)) = 0 THEN None
    ELSE Some(At(d2d, Get(o.base_idx)))

dedup_base_idx(d2d, o) == IF o.base_idx = None THEN None ELSE Some(At(d2d, Get(o.base_idx)))

remove_dupe_metadata(m, mask) ==
    LET d2d == dupe_to_dedup_idx(mask)
        num_data_mutations == CountWhere(m.input_info, LAMBDA x : x.mutates_data)
        other_traced_tangents == SubSeq(m.traced_tangents, num_data_mutations + 1, Len(m.traced_tangents))
        inp_traced_tangents == SubSeq(m.traced_tangents, 1, num_data_mutations)
        mii == mutated_inp_indices(m)
        filtered_inp_traced_tangents ==
            LET kept == SelectSeq(Idx0(inp_traced_tangents), LAMBDA i : At(mask, At(mii, i))) IN
            [k \in 1..Len(kept) |-> At(inp_traced_tangents, kept[k])]
        kept_inputs == SelectSeq(Idx0(m.input_info), LAMBDA i : At(mask, i))
        kept_rg == SelectSeq(Idx0(m.requires_grad_info),
                             LAMBDA i : i >= Len(mii) \/ At(mask, At(mii, i))) IN
    IF Len(m.input_info) # Len(mask) \/ ~(Len(mask) > 0 /\ mask[1]) THEN Raise("AssertionError")
    ELSE IF \E k \in 1..Len(m.output_info) :
                m.output_info[k].base_idx # None /\ Get(m.output_info[k].base_idx) >= Len(d2d)
        THEN Raise("IndexError")
    ELSE Ok(ViewAndMutationMeta(
            [k \in 1..Len(kept_inputs) |-> At(m.input_info, kept_inputs[k])],
            [k \in 1..Len(kept_rg) |-> At(m.requires_grad_info, kept_rg[k])],
            [k \in 1..Len(m.output_info) |->
                OutputAliasInfo(m.output_info[k].output_type, m.output_info[k].raw_type,
                                dedup_base_idx(d2d, m.output_info[k]))],
            m.num_intermediate_bases, m.keep_input_mutations,
            filtered_inp_traced_tangents \o other_traced_tangents))

\* ------------------------------------------- create_synthetic_base_metadata
\* synthetic_base_to_indices[inner_idx]
outer_indices_of(synthetic_base_info, inner_idx) ==
    SelectSeq(Idx0(synthetic_base_info), LAMBDA o : At(synthetic_base_info, o).idx = inner_idx)

\* any(l[x] for x in idxs), from position k on: "True", "False" or the IndexError
\* that l[x] raises before a true entry is met
RECURSIVE PyAnyAt(_, _, _)
PyAnyAt(l, idxs, k) ==
    IF k > Len(idxs) THEN "False"
    ELSE IF idxs[k] >= Len(l) THEN "IndexError"
    ELSE IF At(l, idxs[k]) THEN "True"
    ELSE PyAnyAt(l, idxs, k + 1)

\* val.meta is the updated metadata, val.idx the outer indices of the merged
\* aliases with a metadata mutation
create_synthetic_base_metadata(h, m, synthetic_base_info, outer_args, inner_args) ==
    LET oi(inner_idx) == outer_indices_of(synthetic_base_info, inner_idx)
        any_leaf(x) == \E k \in 1..Len(oi(x)) : At(m.input_info, oi(x)[k]).is_leaf
        all_leaf(x) == \A k \in 1..Len(oi(x)) : At(m.input_info, oi(x)[k]).is_leaf
        input_infos == [k \in 1..Len(inner_args) |->
            InputAliasInfo(any_leaf(k - 1),
                IF Len(oi(k - 1)) > 1 THEN TRUE ELSE At(m.input_info, oi(k - 1)[1]).mutates_data,
                IF Len(oi(k - 1)) > 1 THEN FALSE ELSE At(m.input_info, oi(k - 1)[1]).mutates_metadata)]
        mutated_inner == IndicesWhere(input_infos, IsMutated)
        \* any(m.requires_grad_info[x] for x in outer_indices): x is an outer
        \* argument index
        mutated_inp_require_grad_info == [k \in 1..Len(mutated_inner) |->
            PyAnyAt(m.requires_grad_info, oi(mutated_inner[k]), 1) = "True"]
        \* what the loop over the inner arguments raises at inner_idx, if anything
        raised(x) ==
            IF any_leaf(x) # all_leaf(x) THEN "AssertionError"
            ELSE IF Len(oi(x)) = 0 THEN "IndexError"
            ELSE IF IsMutated(At(input_infos, x))
                    /\ PyAnyAt(m.requires_grad_info, oi(x), 1) = "IndexError" THEN "IndexError"
            ELSE ""
        failing == {x \in 0..(Len(inner_args) - 1) : raised(x) # ""}
        outer_aliased_arg_idx_with_metadata_mutations ==
            SelectSeq(Idx0(m.input_info), LAMBDA o :
                At(m.input_info, o).mutates_metadata /\ At(synthetic_base_info, o).tuple)
        num_original_input_data_mutations == CountWhere(m.input_info, IsMutated)
        output_grad_info == SubSeq(m.requires_grad_info, num_original_input_data_mutations + 1,
                                   Len(m.requires_grad_info))
        input_metadata_mutation_grad_info ==
            [k \in 1..Len(outer_aliased_arg_idx_with_metadata_mutations) |->
                h[At(outer_args, outer_aliased_arg_idx_with_metadata_mutations[k])].rg]
        input_metadata_output_info ==
            [k \in 1..Len(outer_aliased_arg_idx_with_metadata_mutations) |->
                OutputAliasInfo("alias_of_input", "Tensor",
                    Some(At(synthetic_base_info, outer_aliased_arg_idx_with_metadata_mutations[k]).idx))]
        existing_output_infos == [k \in 1..Len(m.output_info) |->
            OutputAliasInfo(m.output_info[k].output_type, m.output_info[k].raw_type,
                IF m.output_info[k].base_idx = None THEN None
                ELSE Some(At(synthetic_base_info, Get(m.output_info[k].base_idx)).idx))]
        num_outer_mutated_data_inps == CountWhere(m.input_info, LAMBDA x : x.mutates_data)
        inner_mutated_data_inps == IndicesWhere(input_infos, LAMBDA x : x.mutates_data)
        traced_tangents ==
            [k \in 1..Len(inner_mutated_data_inps) |-> h[At(inner_args, inner_mutated_data_inps[k])].len]
            \o SubSeq(m.traced_tangents, num_outer_mutated_data_inps + 1, Len(m.traced_tangents)) IN
    IF failing # {} THEN Raise(raised(CHOOSE x \in failing : \A y \in failing : x <= y))
    ELSE IF \E k \in 1..Len(m.output_info) :
                m.output_info[k].base_idx # None
                /\ Get(m.output_info[k].base_idx) >= Len(synthetic_base_info)
        THEN Raise("IndexError")
    ELSE Ok([meta |-> ViewAndMutationMeta(
                input_infos,
                mutated_inp_require_grad_info \o output_grad_info \o input_metadata_mutation_grad_info,
                existing_output_infos \o input_metadata_output_info,
                m.num_intermediate_bases, m.keep_input_mutations, traced_tangents),
             idx |-> outer_aliased_arg_idx_with_metadata_mutations])

\* ------------------------------------------------------------------- state
VARIABLES
    world,          \* which tensors the caller holds (never changes)
    heap,           \* the Python objects: id -> tensor or scalar
    store,          \* the storages: storage id -> element -> value
    flat_args,      \* the argument list of the call that compiles
    flat_fn,        \* the traced function
    aot_config,     \* the arguments of aot_function, then the AOTConfig it builds
    pc,             \* the stage the call of create_aot_dispatcher_function is at
    fw_metadata,    \* the metadata of the analysis
    dedupe,         \* what aot_wrapper_dedupe computed
    synth,          \* what aot_wrapper_synthetic_base computed
    compiled,       \* what aot_dispatch_base or aot_dispatch_autograd built
    deduped_args,   \* the arguments of the call after the wrapper of aot_wrapper_dedupe
    rt_args,        \* the arguments runtime_wrapper is called with
    all_outs,       \* what the compiled forward returned
    outs,           \* what the call returns
    log,            \* the writes to the arguments of the call, in order
    backward,       \* the call of CompiledFunction.backward on the outputs of the call
    error           \* the exception that ended compilation or the call, "" if none

vars == <<world, heap, store, flat_args, flat_fn, aot_config, pc, fw_metadata, dedupe, synth, compiled,
          deduped_args, rt_args, all_outs, outs, log, backward, error>>

runtime_vars == <<deduped_args, rt_args, all_outs, outs, log, backward>>

\* ------------------------------------------------------------------ inputs
\* the tensors of a call: a, a view of it (or another tensor on its storage), a
\* tensor on another storage, and the base of a and its view when neither is
TensorA == 1
TensorAv == 2
TensorB == 3
TensorE == 4
IntN == 8
IntM == 9

ArgObjects == {TensorA, TensorAv, TensorB, IntN, IntM}

\* the calls of the pipeline: lists of tensors
Tensors == {TensorA, TensorAv, TensorB}

Worlds == {"inference_view", "inference_raw", "inference_base", "autograd", "autograd_leaf"}

\* the worlds in which the tensors on the storage of a have no common base, or
\* differ in dtype from each other or from their base
ViewWorlds == {"inference_view", "autograd", "autograd_raw", "inference_mixed", "inference_dtype",
               "autograd_dtype", "inference_base_dtype"}

\* IntN and IntM are two instances of one value; in the world autograd_other
\* only the tensor on the other storage requires grad
WorldHeap(w) ==
    LET g == w \in {"autograd", "autograd_leaf", "autograd_raw", "autograd_dtype"}
        lf == w \notin {"autograd", "autograd_dtype"}
        a_base == IF w \in {"inference_base", "inference_mixed", "inference_base_dtype"} THEN TensorE ELSE 0
        av_base == CASE w \in {"inference_raw", "autograd_raw", "inference_mixed"} -> 0
                     [] w \in {"inference_base", "inference_base_dtype"} -> TensorE
                     [] OTHER -> TensorA IN
    (TensorA :> Tensor(1, a_base, g, lf, "f32", 0, IF a_base # 0 THEN 1 ELSE 2))
    @@ (TensorAv :> Tensor(1, av_base, g, IF av_base = TensorA THEN ~g ELSE lf,
                           IF w \in {"inference_dtype", "autograd_dtype"} THEN "c64" ELSE "f32", 1, 1))
    @@ (TensorB :> Tensor(2, 0, g \/ w = "autograd_other", lf /\ w # "autograd_other", "f32", 0, 2))
    @@ (TensorE :> Tensor(1, 0, FALSE, TRUE, IF w = "inference_base_dtype" THEN "c64" ELSE "f32", 0, 2))
    @@ (IntN :> Scalar(7))
    @@ (IntM :> Scalar(7))

OutKinds(n) == {OutDesc("inp", n - 1), OutDesc("view", n - 1), OutDesc("fresh", 0), OutDesc("int", 0),
                OutDesc("vint", 0)}

\* the mutations a function applies to an object
ObjectMutKinds(x) ==
    CASE x = TensorA -> MutKinds
      [] x = TensorAv -> {"none", "data", "meta"}
      [] x = TensorB -> {"none", "data"}
      [] OTHER -> {"none"}

\* the functions traced on args: one mutation per object, applied through every
\* parameter bound to it, and at most max_outs outputs
Functions(args, max_outs) ==
    {[mut |-> [i \in 1..Len(args) |-> mk[args[i]]], outs |-> o] :
        mk \in {f \in [ArgObjects -> MutKinds] :
                   \A x \in ArgObjects : f[x] \in (IF x \in Range(args) THEN ObjectMutKinds(x) ELSE {"none"})},
        o \in {q \in SeqsUpTo(OutKinds(Len(args)), max_outs) : Len(args) + Len(q) <= MaxArgs + 1}}

NoMeta == ViewAndMutationMeta(<<>>, <<>>, <<>>, 0, FALSE, <<>>)
NoDedupe == [strategy |-> 0, args |-> <<>>, fn |-> [mut |-> <<>>, outs |-> <<>>],
             mask |-> <<>>, map |-> <<>>, meta |-> NoMeta, ref |-> NoMeta]
NoSynth == [none |-> TRUE, args |-> <<>>, info |-> <<>>, bind |-> <<>>, meta |-> NoMeta, ref |-> NoMeta,
            idx |-> <<>>]
\* compiler is the compiler that compiled the forward, compiled_bw is
\* CompiledFunction.compiled_bw
NoCompiled == [trace_joint |-> FALSE, keep_input_mutations |-> FALSE, meta |-> NoMeta, graph |-> <<>>,
               compiler |-> None, compiled_bw |-> None]

AOTConfig(fw_compiler, bw_compiler, inference_compiler, keep_inference_input_mutations) ==
    [fw_compiler |-> fw_compiler, bw_compiler |-> bw_compiler,
     inference_compiler |-> inference_compiler,
     keep_inference_input_mutations |-> keep_inference_input_mutations]

\* aot_function: the AOTConfig it builds from its arguments; the
\* inference_compiler it computes is not the one it passes on
aot_function(args) ==
    LET bw_compiler == IF args.bw_compiler = None THEN args.fw_compiler ELSE args.bw_compiler
        inference_compiler == IF args.inference_compiler = None THEN args.fw_compiler
                              ELSE args.inference_compiler IN
    AOTConfig(args.fw_compiler, bw_compiler, args.fw_compiler, args.keep_inference_input_mutations)

\* aot_function(fn, fw_compiler, keep_inference_input_mutations=keep)
ConfigsOf(keeps) ==
    {aot_function(AOTConfig(Some("fw_compiler"), None, None, keep)) : keep \in keeps}

\* a gradient CompiledFunction.backward is given: a tensor or None
GradOutput(tensor, requires_grad) == [tensor |-> tensor, requires_grad |-> requires_grad]

\* CompiledFunction.backward has not run; calls counts its calls and
\* bw_compiler_calls the calls of the backward compiler
NoBackward == [ran |-> FALSE, grad_enabled |-> FALSE, flat_args |-> <<>>, saved_tensors |-> <<>>,
               flat_bw_args |-> <<>>, grad_fn |-> "", requires_grad |-> FALSE,
               calls |-> 0, bw_compiler_calls |-> 0]

\* the state before create_aot_dispatcher_function runs
Start ==
    /\ store = [st \in Storages |-> [e \in StorageElems |-> 0]]
    /\ pc = "analyze"
    /\ fw_metadata = NoMeta
    /\ dedupe = NoDedupe
    /\ synth = NoSynth
    /\ compiled = NoCompiled
    /\ deduped_args = <<>>
    /\ rt_args = <<>>
    /\ all_outs = <<>>
    /\ outs = <<>>
    /\ log = <<>>
    /\ backward = NoBackward
    /\ error = ""

Init ==
    /\ world \in Worlds
    /\ heap = WorldHeap(world)
    /\ flat_args \in SeqsUpTo(Tensors, MaxArgs) \ {<<>>}
    /\ flat_fn \in Functions(flat_args, MaxOuts)
    /\ aot_config \in ConfigsOf(BOOLEAN)
    /\ aot_config.keep_inference_input_mutations => world = "inference_view"
    /\ Start

\* calls with longer lists, with non-tensor arguments, of functions that return nothing
MaxListLen == 4

InitLists ==
    /\ world \in {"inference_view", "autograd"}
    /\ heap = WorldHeap(world)
    /\ flat_args \in SeqsUpTo(ArgObjects, MaxListLen) \ {<<>>}
    /\ flat_fn \in {f \in Functions(flat_args, 0) : \A i \in 1..Len(f.mut) : f.mut[i] \in {"none", "data"}}
    /\ aot_config \in ConfigsOf({FALSE})
    /\ Start

\* calls on tensors that share a storage in every way: views of one another,
\* views of one base, of different bases, of no base, of different dtypes
InitViews ==
    /\ world \in ViewWorlds
    /\ heap = WorldHeap(world)
    /\ flat_args \in SeqsUpTo(Tensors, MaxArgs) \ {<<>>}
    /\ flat_fn \in Functions(flat_args, MaxOuts - 1)
    /\ aot_config \in ConfigsOf({FALSE})
    /\ Start

\* calls on tensors of which some require grad and some do not
InitRequiresGrad ==
    /\ world = "autograd_other"
    /\ heap = WorldHeap(world)
    /\ flat_args \in SeqsUpTo(Tensors, MaxArgs) \ {<<>>}
    /\ flat_fn \in Functions(flat_args, MaxOuts)
    /\ aot_config \in ConfigsOf({FALSE})
    /\ Start

\* calls on two tensors of one storage, of functions with one output more
InitOutputs ==
    /\ world = "autograd"
    /\ heap = WorldHeap(world)
    /\ flat_args \in {a \in SeqsUpTo({TensorA, TensorAv}, MaxArgs - 1) : Len(a) = MaxArgs - 1}
    /\ flat_fn \in {[mut |-> f.mut, outs |-> o] :
                       f \in Functions(flat_args, 0),
                       o \in {q \in SeqsUpTo(OutKinds(Len(flat_args)), MaxOuts + 1) :
                                 Len(q) = MaxOuts + 1}}
    /\ aot_config \in ConfigsOf({FALSE})
    /\ Start

\* ----------------------------------------- create_aot_dispatcher_function
needs_autograd == \E i \in 1..Len(flat_args) : heap[flat_args[i]].tensor /\ heap[flat_args[i]].rg

\* fw_metadata = run_functionalized_fw_and_collect_metadata(flat_fn, ...)(*flat_args)
CollectMetadata ==
    /\ pc = "analyze"
    /\ fw_metadata' = Analyze(heap, flat_args, IdentityBind(Len(flat_args)), needs_autograd, flat_fn,
                              <<>>, aot_config.keep_inference_input_mutations /\ ~needs_autograd)
    /\ pc' = "dedupe"
    /\ UNCHANGED <<world, heap, store, flat_args, flat_fn, aot_config, dedupe, synth, compiled, runtime_vars, error>>

\* flat_fn . add_dupe_args: the function of the deduplicated arguments
MutJoin(ks) ==
    CASE (\E k \in ks : HasData(k)) /\ (\E k \in ks : HasMeta(k)) -> "both"
      [] (\E k \in ks : HasData(k)) -> "data"
      [] (\E k \in ks : HasMeta(k)) -> "meta"
      [] OTHER -> "none"

dedupe_wrapped_flat_fn(fn, map, n) ==
    [mut |-> [j \in 1..n |-> MutJoin({fn.mut[i] : i \in {l \in 1..Len(fn.mut) : map[l - 1] = j - 1}})],
     outs |-> [k \in 1..Len(fn.outs) |->
                  IF fn.outs[k].kind \in {"inp", "view"}
                  THEN OutDesc(fn.outs[k].kind, map[fn.outs[k].idx]) ELSE fn.outs[k]]]

\* strategy 1: the later occurrences of a duplicate are replaced by detached copies
DedupeStrategy1 ==
    /\ dedupe' = [NoDedupe EXCEPT !.strategy = 1, !.args = leaf_flat_args(heap, flat_args),
                                  !.fn = flat_fn, !.meta = fw_metadata]
    /\ heap' = heap @@ [x \in {DetachedId(i) : i \in {j \in 0..(Len(flat_args) - 1) :
                                  IsLaterOccurrence(heap, flat_args, j)}} |->
                          Detached(heap, At(flat_args, x - DetachedId(0)))]
    /\ pc' = "synthetic_base"
    /\ error' = error

\* a strategy 2 that refuses a deduplicated list in which an input that is merged
\* into a synthetic base has a metadata mutation
DedupeStrategy2_Unsupported(mask, map, deduped_flat_args, updated, wrapped) ==
    /\ heap' = heap
    /\ IF updated.err # ""
          \/ \E st \in Range(MergedGroupsOrder(heap, deduped_flat_args, updated.val.input_info)) :
                \E i \in Range(StorageGroup(heap, deduped_flat_args, st)) :
                    At(updated.val.input_info, i).mutates_metadata
       THEN
          /\ error' = IF updated.err # "" THEN updated.err ELSE "RuntimeError"
          /\ pc' = "failed"
          /\ dedupe' = dedupe
       ELSE
          /\ dedupe' = [strategy |-> 2, args |-> deduped_flat_args, fn |-> wrapped,
                        mask |-> mask, map |-> map, meta |-> updated.val, ref |-> NoMeta]
          /\ pc' = "synthetic_base"
          /\ error' = error

\* strategy 2: the duplicates are removed and the metadata is updated
DedupeStrategy2(mask, map, deduped_flat_args, updated, wrapped) ==
    /\ heap' = heap
    /\ IF updated.err # "" THEN
          /\ error' = updated.err
          /\ pc' = "failed"
          /\ dedupe' = dedupe
       ELSE
          /\ dedupe' = [strategy |-> 2, args |-> deduped_flat_args, fn |-> wrapped,
                        mask |-> mask, map |-> map, meta |-> updated.val,
                        ref |-> Analyze(heap, deduped_flat_args,
                                        IdentityBind(Len(deduped_flat_args)), needs_autograd,
                                        wrapped, <<>>, fw_metadata.keep_input_mutations)]
          /\ pc' = "synthetic_base"
          /\ error' = error

DedupeWithMaps(mask, map, deduped_flat_args) ==
    DedupeStrategy2(mask, map, deduped_flat_args, remove_dupe_metadata(fw_metadata, mask),
                    dedupe_wrapped_flat_fn(flat_fn, map, Len(deduped_flat_args)))

DedupeWithMask(mask) ==
    DedupeWithMaps(mask, add_dupe_map(heap, flat_args), remove_dupe_args(flat_args, mask))

\* aot_wrapper_dedupe, up to its call of compiler_fn
AotWrapperDedupe ==
    /\ pc = "dedupe"
    /\ IF Strategy1Ok(heap, flat_args, fw_metadata) THEN DedupeStrategy1
       ELSE DedupeWithMask(keep_arg_mask(heap, flat_args))
    /\ UNCHANGED <<world, store, flat_args, flat_fn, aot_config, fw_metadata, synth, compiled, runtime_vars>>

\* unpack_synthetic_bases: where each parameter of flat_fn comes from
unpack_synthetic_bases(synthetic_base_info) ==
    [q \in 1..Len(synthetic_base_info) |-> Bind(synthetic_base_info[q].idx, synthetic_base_info[q].tuple)]

\* the id added to the storage id for a synthetic base made while compiling
CompileBase == 200

\* aot_wrapper_synthetic_base once the metadata is updated, up to its call of compiler_fn
WithSyntheticBases(h, merged, updated, bind) ==
    /\ heap' = h
    /\ IF Len(dedupe.meta.input_info) # Len(merged.info) THEN
          /\ error' = "AssertionError"
          /\ pc' = "failed"
          /\ synth' = synth
       ELSE IF updated.err # "" THEN
          /\ error' = updated.err
          /\ pc' = "failed"
          /\ synth' = synth
       ELSE
          /\ synth' = [none |-> FALSE, args |-> merged.args, info |-> merged.info,
                       bind |-> bind, meta |-> updated.val.meta, idx |-> updated.val.idx,
                       ref |-> Analyze(h, merged.args, bind, needs_autograd, dedupe.fn,
                                       updated.val.idx, dedupe.meta.keep_input_mutations)]
          /\ pc' = "dispatch"
          /\ error' = error

\* aot_wrapper_synthetic_base after merge_view_inputs returned synthetic bases;
\* h is the heap with the bases it created
WithMergedInputs(h, merged) ==
    WithSyntheticBases(h, merged,
        create_synthetic_base_metadata(h, dedupe.meta, merged.info, dedupe.args, merged.args),
        unpack_synthetic_bases(merged.info))

\* aot_wrapper_synthetic_base after merge_view_inputs
AfterMergeViewInputs(merged) ==
    IF merged.err # "" THEN
       /\ error' = merged.err
       /\ pc' = "failed"
       /\ UNCHANGED <<heap, synth>>
    ELSE IF merged.val.none THEN
       /\ synth' = [NoSynth EXCEPT !.args = dedupe.args, !.meta = dedupe.meta,
                                   !.bind = IdentityBind(Len(dedupe.args))]
       /\ pc' = "dispatch"
       /\ UNCHANGED <<heap, error>>
    ELSE WithMergedInputs(heap @@ merged.val.new, merged.val)

\* aot_wrapper_synthetic_base, up to its call of compiler_fn
AotWrapperSyntheticBase ==
    /\ pc = "synthetic_base"
    /\ AfterMergeViewInputs(merge_view_inputs(heap, dedupe.args, dedupe.meta.input_info,
                                              ~needs_autograd, CompileBase))
    /\ UNCHANGED <<world, store, flat_args, flat_fn, aot_config, fw_metadata, dedupe, compiled, runtime_vars>>

\* ------------------------------------------------------------ the fx graph
\* A node of the traced graph: its id, its op, its target, the id of the node
\* that is its first argument (0: none) and whether another node uses it.
Node(id, op, target, arg, used) == [id |-> id, op |-> op, target |-> target, arg |-> arg, used |-> used]

\* the targets that are an OpOverload; operator.getitem is not one
OpOverloads == {"aten.copy_.default", "aten.add_.Tensor", "aten.add.Tensor", "aten.view.default"}

\* n.target._schema.is_mutable
is_mutable(target) == target \in {"aten.copy_.default", "aten.add_.Tensor"}

\* an assert_functional_graph that leaves the input in placeholders after a copy_
RECURSIVE assert_functional_graph_NoRemove(_, _, _, _, _)
assert_functional_graph_NoRemove(fx_g, allow_input_mutations, k, placeholders, copy_count) ==
    IF k > Len(fx_g) THEN Ok(copy_count)
    ELSE
    LET n == fx_g[k]
        seen == IF n.op = "placeholder" THEN placeholders \cup {n.id} ELSE placeholders IN
    IF n.target \notin OpOverloads
    THEN assert_functional_graph_NoRemove(fx_g, allow_input_mutations, k + 1, seen, copy_count)
    ELSE IF n.target = "aten.copy_.default" /\ allow_input_mutations THEN
        IF n.arg \notin seen THEN Raise("AssertionError")
        ELSE assert_functional_graph_NoRemove(fx_g, allow_input_mutations, k + 1, seen, copy_count + 1)
    ELSE IF is_mutable(n.target) THEN Raise("AssertionError")
    ELSE assert_functional_graph_NoRemove(fx_g, allow_input_mutations, k + 1, seen, copy_count)

\* assert_functional_graph from node k on: the number of copy_ it counted, or
\* the AssertionError
RECURSIVE assert_functional_graph(_, _, _, _, _)
assert_functional_graph(fx_g, allow_input_mutations, k, placeholders, copy_count) ==
    IF k > Len(fx_g) THEN Ok(copy_count)
    ELSE
    LET n == fx_g[k]
        seen == IF n.op = "placeholder" THEN placeholders \cup {n.id} ELSE placeholders IN
    IF n.target \notin OpOverloads
    THEN assert_functional_graph(fx_g, allow_input_mutations, k + 1, seen, copy_count)
    ELSE IF n.target = "aten.copy_.default" /\ allow_input_mutations THEN
        \* can only copy_ into an input, and can only do so once
        IF n.arg \notin seen THEN Raise("AssertionError")
        ELSE assert_functional_graph(fx_g, allow_input_mutations, k + 1, seen \ {n.arg}, copy_count + 1)
    ELSE IF is_mutable(n.target) THEN Raise("AssertionError")
    ELSE assert_functional_graph(fx_g, allow_input_mutations, k + 1, seen, copy_count)

\* fx_g.eliminate_dead_code(): a node without users goes unless it is impure
\* (a placeholder, the output, a copy_)
eliminate_dead_code(fx_g) ==
    SelectSeq(fx_g, LAMBDA n : n.op \in {"placeholder", "output"} \/ n.target = "aten.copy_.default" \/ n.used)

\* create_functionalized_graph: a placeholder per input, the functional update
\* of every mutated tensor input, then (keep_inference_input_mutations, no
\* joint) a copy_ into every input with a data-only mutation, followed by a
\* view nothing uses, and the output
create_functionalized_graph(h, args, meta, keep_copies) ==
    LET n == Len(args)
        updates == [i \in 1..n |->
            IF h[args[i]].tensor /\ IsMutated(meta.input_info[i])
            THEN <<Node(n + i, "call_function", "aten.add.Tensor", i, TRUE)>> ELSE <<>>]
        copies == [i \in 1..n |->
            IF keep_copies /\ h[args[i]].tensor
               /\ meta.input_info[i].mutates_data /\ ~meta.input_info[i].mutates_metadata
            THEN <<Node(2 * n + i, "call_function", "aten.copy_.default", i, FALSE),
                   Node(3 * n + i, "call_function", "aten.view.default", n + i, FALSE)>>
            ELSE <<>>] IN
    [i \in 1..n |-> Node(i, "placeholder", "", 0, TRUE)]
    \o Concat(updates) \o Concat(copies)
    \o <<Node(4 * n + 1, "output", "output", 0, TRUE)>>

\* the two assert_functional_graph of aot_dispatch_base around
\* eliminate_dead_code, given what the first returned: the graph it compiles
checked_inference_graph(fx_g, allow, copy_count) ==
    IF copy_count.err # "" THEN copy_count
    ELSE IF assert_functional_graph(eliminate_dead_code(fx_g), allow, 1, {}, 0) # copy_count
         THEN Raise("AssertionError")
    ELSE Ok(eliminate_dead_code(fx_g))

\* the assert_functional_graph of aot_dispatch_autograd, then eliminate_dead_code
checked_joint_graph(fx_g, checked) ==
    IF checked.err # "" THEN checked ELSE Ok(eliminate_dead_code(fx_g))

\* the graph aot_dispatch_base or aot_dispatch_autograd compiles, from the graph traced
checked_graph(fx_g, trace_joint, keep) ==
    IF trace_joint THEN checked_joint_graph(fx_g, assert_functional_graph(fx_g, FALSE, 1, {}, 0))
    ELSE checked_inference_graph(fx_g, keep, assert_functional_graph(fx_g, keep, 1, {}, 0))

\* fn_prepped_for_autograd: the mask of the outputs of the forward that get tangents
out_grad_mask(meta) ==
    [k \in 1..Len(mutated_inp_indices(meta)) |->
        At(meta.input_info, mutated_inp_indices(meta)[k]).mutates_data]
    \o [k \in 1..Len(meta.output_info) |-> IsTangentOutput(meta.output_info[k])]
    \o [k \in 1..CountWhere(meta.output_info,
                            LAMBDA o : o.output_type = "alias_of_intermediate_save_as_output") |-> TRUE]

\* the asserts of fn_input_mutations_to_outputs, fn_prepped_for_autograd and
\* create_joint while the graph is traced
TraceAsserts(meta, trace_joint) ==
    /\ Len(meta.output_info) = Len(dedupe.fn.outs) + Len(synth.idx)
    /\ trace_joint =>
          /\ Len(meta.requires_grad_info) = num_mutated_inputs(meta) + num_outputs(meta)
          /\ Len(SelectSeq(out_grad_mask(meta), LAMBDA needs_tangent : needs_tangent))
             = Len(meta.traced_tangents)
          /\ meta.num_intermediate_bases =
                CountWhere(meta.output_info,
                           LAMBDA o : o.output_type = "alias_of_intermediate_save_as_output")

\* aot_dispatch_base or aot_dispatch_autograd once the graph is traced and checked
Dispatched(checked) ==
    IF checked.err = "" THEN
       /\ compiled' = [trace_joint |-> needs_autograd,
                       keep_input_mutations |->
                           ~needs_autograd /\ aot_config.keep_inference_input_mutations,
                       meta |-> synth.meta, graph |-> checked.val,
                       compiler |-> IF needs_autograd \/ aot_config.inference_compiler = None
                                    THEN aot_config.fw_compiler
                                    ELSE aot_config.inference_compiler,
                       compiled_bw |-> None]
       /\ pc' = "compiled"
       /\ error' = error
    ELSE
       /\ error' = checked.err
       /\ pc' = "failed"
       /\ compiled' = compiled

\* aot_dispatch_base or aot_dispatch_autograd: trace, compile, create_runtime_wrapper
AotDispatch ==
    /\ pc = "dispatch"
    /\ IF TraceAsserts(synth.meta, needs_autograd) THEN
          Dispatched(checked_graph(
              create_functionalized_graph(heap, synth.args, synth.meta,
                  aot_config.keep_inference_input_mutations /\ ~needs_autograd),
              needs_autograd, aot_config.keep_inference_input_mutations))
       ELSE
          /\ error' = "AssertionError"
          /\ pc' = "failed"
          /\ compiled' = compiled
    /\ UNCHANGED <<world, heap, store, flat_args, flat_fn, aot_config, fw_metadata, dedupe, synth, runtime_vars>>

\* ------------------------------------------------------------ the call
\* the id added to the storage id for a synthetic base made during the call
RuntimeBase == 300

compile_vars == <<world, flat_args, flat_fn, aot_config, fw_metadata, dedupe, synth, compiled>>

\* wrapped_compiled_fn of aot_wrapper_synthetic_base, after merge_view_inputs
SyntheticBaseCall(args, merged) ==
    IF merged.err # "" \/ merged.val.none THEN
       /\ error' = IF merged.err # "" THEN merged.err ELSE "AssertionError"
       /\ pc' = "raised"
       /\ UNCHANGED <<heap, deduped_args, rt_args>>
    ELSE
       /\ heap' = heap @@ merged.val.new
       /\ deduped_args' = args
       /\ rt_args' = merged.val.args
       /\ pc' = "forward"
       /\ error' = error

\* the function aot_wrapper_synthetic_base returned, down to the call of the
\* compiled forward
SyntheticBaseWrappedCompiledFn(args) ==
    IF synth.none THEN
       /\ deduped_args' = args
       /\ rt_args' = args
       /\ pc' = "forward"
       /\ UNCHANGED <<heap, error>>
    ELSE SyntheticBaseCall(args, merge_view_inputs(heap, args, dedupe.meta.input_info,
                                                   ~needs_autograd, RuntimeBase))

\* debugged_compiled_fn: the duplicates of the call are those seen when compiling
debugged_compiled_fn(args, new_args) ==
    IF dedupe.strategy = 2 /\ ~(new_args.err = "" /\ \A i \in 1..Len(args) : new_args.val[i] = args[i])
    THEN
       /\ error' = IF new_args.err # "" THEN new_args.err ELSE "AssertionError"
       /\ pc' = "raised"
       /\ UNCHANGED <<heap, deduped_args, rt_args>>
    ELSE SyntheticBaseWrappedCompiledFn(
             IF dedupe.strategy = 2 THEN remove_dupe_args(args, dedupe.mask) ELSE args)

\* the call of the function aot_wrapper_dedupe returned, down to the call of the
\* compiled forward in runtime_wrapper: debugged_compiled_fn, wrapped_compiled_fn
\* of aot_wrapper_dedupe, wrapped_compiled_fn of aot_wrapper_synthetic_base
CallCompiledFn ==
    /\ pc = "compiled"
    /\ debugged_compiled_fn(flat_args,
           add_dupe_args(remove_dupe_args(flat_args, dedupe.mask), dedupe.map, Len(dedupe.mask)))
    /\ UNCHANGED <<store, compile_vars, all_outs, outs, log, backward>>

\* ------------------------------------------------- the compiled forward
\* the storage elements a tensor reads
Region(t) == {t.off + j : j \in 0..(t.len - 1)}

\* the value an in-place data mutation leaves in each element it writes
MutatedValue == 1

\* the size and offset an in-place metadata mutation leaves: the last element
MetadataMutation(t) == [off |-> t.off + t.len - 1, len |-> 1]

\* the object parameter q (from 1) of flat_fn is, or is regenerated as a view like
ParamObject(q) ==
    IF synth.bind[q].view THEN synth.info[q].view ELSE At(rt_args, synth.bind[q].src)

\* the positions of flat_fn the graph computes from inner input p
ParamsOf(p) == {q \in 1..Len(synth.bind) : At(rt_args, synth.bind[q].src) = At(rt_args, p)}

\* the elements of inner input p the traced mutations write
WrittenIn(p) ==
    UNION {Region(heap[ParamObject(q)]) : q \in {r \in ParamsOf(p) : HasData(dedupe.fn.mut[r])}}

\* a tensor the compiled forward returns: its values, geometry and storage size;
\* alias when it is wrapped in TensorAlias, non_differentiable when
\* CompiledFunction.forward marked it
Value(what, data, off, storage_size) ==
    [what |-> what, data |-> data, off |-> off, len |-> Len(data), storage_size |-> storage_size,
     alias |-> FALSE, non_differentiable |-> FALSE]

\* the values of the region r of storage st after the mutations written
ReadMutated(st, r, written) ==
    [j \in 1..r.len |-> IF (r.off + j - 1) \in written THEN MutatedValue ELSE store[st][r.off + j - 1]]

\* the updated inner input p
UpdatedInput(p) ==
    LET t == heap[At(rt_args, p)]
        k == MutJoin({dedupe.fn.mut[q] : q \in {r \in ParamsOf(p) : ~synth.bind[r].view}})
        r == IF HasMeta(k) THEN MetadataMutation(t) ELSE [off |-> t.off, len |-> t.len]
        data == ReadMutated(t.st, r, WrittenIn(p)) IN
    IF ~t.tensor THEN Value(<<"input", p>>, <<t.val>>, 0, 0)
    \* a data mutation returns a new dense tensor, a metadata mutation a view
    ELSE Value(<<"input", p>>, data, r.off,
               IF WrittenIn(p) # {} THEN r.len ELSE Cardinality(StorageElems))

\* parameter q (from 1) of flat_fn when flat_fn returns
ParamValue(what, q) ==
    LET t == heap[ParamObject(q)]
        r == IF HasMeta(dedupe.fn.mut[q]) THEN MetadataMutation(t) ELSE [off |-> t.off, len |-> t.len] IN
    IF ~t.tensor THEN Value(what, <<t.val>>, 0, 0)
    ELSE Value(what, ReadMutated(t.st, r, WrittenIn(synth.bind[q].src)), r.off,
               Cardinality(StorageElems))

\* output k (from 1) of flat_fn
OutValue(k) ==
    LET d == dedupe.fn.outs[k] IN
    CASE d.kind \in {"inp", "view"} -> ParamValue(<<"out", k - 1>>, d.idx + 1)
      [] d.kind = "fresh" -> Value(<<"out", k - 1>>, <<0>>, 0, 1)
      [] d.kind = "int" -> Value(<<"out", k - 1>>, <<0, 0>>, 0, 2)
      [] d.kind = "vint" -> Value(<<"out", k - 1>>, <<0>>, 0, 2)

\* every mutated input is returned, whatever keep_data_input_mutations is
mutated_inputs_to_return_All(meta, keep_data_input_mutations) ==
    IndicesWhere(meta.input_info, IsMutated)

\* fn_input_mutations_to_outputs and fn_prepped_for_autograd: the graph returns
\* (mutated inputs, outputs, intermediate bases)
mutated_inputs_to_return(meta, keep_data_input_mutations) ==
    IndicesWhere(meta.input_info,
                 LAMBDA x : x.mutates_metadata \/ (x.mutates_data /\ ~keep_data_input_mutations))

GraphOuts(meta, trace_joint, keep_data_input_mutations) ==
    LET mutated == mutated_inputs_to_return(meta, ~trace_joint /\ keep_data_input_mutations)
        bases == IF trace_joint
                 THEN IndicesWhere(meta.output_info,
                          LAMBDA o : o.output_type = "alias_of_intermediate_save_as_output")
                 ELSE <<>> IN
    [k \in 1..Len(mutated) |-> UpdatedInput(mutated[k])]
    \o [k \in 1..Len(dedupe.fn.outs) |-> OutValue(k)]
    \o [k \in 1..Len(synth.idx) |-> ParamValue(<<"out", Len(dedupe.fn.outs) + k - 1>>, synth.idx[k] + 1)]
    \o [k \in 1..Len(bases) |-> Value(<<"base", k - 1>>, <<0, 0>>, 0, 2)]

\* every returned value whose requires_grad_info entry is false is marked,
\* wrapped in TensorAlias or not
fw_outs_not_requiring_grad_Wrapped(meta, raw_returns) ==
    {i \in 0..(Len(raw_returns) - 1) :
        /\ i < num_mutated_inputs(meta) + num_outputs(meta)
        /\ ~At(meta.requires_grad_info, i)}

\* the positions of raw_returns, without the intermediate bases, of the values
\* that are a torch.Tensor (not a TensorAlias, not an int) and whose
\* requires_grad_info entry is false
fw_outs_not_requiring_grad(meta, raw_returns) ==
    {i \in 0..(Len(raw_returns) - 1) :
        /\ i < num_mutated_inputs(meta) + num_outputs(meta)
        /\ ~At(raw_returns, i).alias
        /\ (i >= num_mutated_inputs(meta)) =>
              At(meta.output_info, i - num_mutated_inputs(meta)).raw_type = "Tensor"
        /\ ~At(meta.requires_grad_info, i)}

\* ctx.mark_non_differentiable(*fw_outs_not_requiring_grad)
mark_non_differentiable(raw_returns, marked) ==
    [k \in 1..Len(raw_returns) |->
        IF (k - 1) \in marked THEN [raw_returns[k] EXCEPT !.non_differentiable = TRUE]
        ELSE raw_returns[k]]

\* CompiledFunction.forward: the outputs that are aliases are wrapped in TensorAlias
TensorAliased(meta, raw_returns) ==
    LET wrap_inputs == {i \in 0..(Len(mutated_inp_indices(meta)) - 1) :
                           /\ num_mutated_metadata_only_inputs(meta) > 0
                           /\ At(meta.input_info, At(mutated_inp_indices(meta), i)).mutates_metadata
                           /\ ~At(meta.input_info, At(mutated_inp_indices(meta), i)).mutates_data}
        wrap_outs == {num_mutated_inputs(meta) + At(aliased_out_indices(meta), i) :
                         i \in 0..(Len(aliased_out_indices(meta)) - 1)} IN
    IF num_mutated_inputs(meta) + num_outputs(meta) # Len(meta.requires_grad_info) THEN Raise("AssertionError")
    ELSE IF \E i \in wrap_inputs \cup wrap_outs : i >= Len(raw_returns) THEN Raise("IndexError")
    ELSE Ok([k \in 1..Len(raw_returns) |->
                IF (k - 1) \in wrap_inputs \cup wrap_outs THEN [raw_returns[k] EXCEPT !.alias = TRUE]
                ELSE raw_returns[k]])

\* a write to an argument of the call
Write(by, arg, op) == [by |-> by, arg |-> arg, op |-> op]

\* t.copy_(src): the values of src go to the elements t reads
RECURSIVE CopyInto(_, _, _, _)
CopyInto(s, t, data, j) ==
    IF j > t.len \/ j > Len(data) THEN s
    ELSE CopyInto([s EXCEPT ![t.st][t.off + j - 1] = data[j]], t, data, j + 1)

\* the copy_ the graph keeps for the inputs with a data-only mutation
\* (create_functionalized_graph with keep_inference_input_mutations)
\* the copy_ kept for every input with a data mutation, a metadata mutation or not
RECURSIVE GraphCopies_AnyDataMutation(_, _, _, _)
GraphCopies_AnyDataMutation(meta, i, s, l) ==
    IF i >= Len(rt_args) \/ i >= Len(meta.input_info) THEN [store |-> s, log |-> l]
    ELSE IF heap[At(rt_args, i)].tensor /\ At(meta.input_info, i).mutates_data
         THEN GraphCopies_AnyDataMutation(meta, i + 1, CopyInto(s, heap[At(rt_args, i)], UpdatedInput(i).data, 1),
                                          Append(l, Write("graph", At(rt_args, i), {"copy_"})))
    ELSE GraphCopies_AnyDataMutation(meta, i + 1, s, l)

RECURSIVE GraphCopies(_, _, _, _)
GraphCopies(meta, i, s, l) ==
    IF i >= Len(rt_args) \/ i >= Len(meta.input_info) THEN [store |-> s, log |-> l]
    ELSE IF heap[At(rt_args, i)].tensor
            /\ At(meta.input_info, i).mutates_data /\ ~At(meta.input_info, i).mutates_metadata
         THEN GraphCopies(meta, i + 1, CopyInto(s, heap[At(rt_args, i)], UpdatedInput(i).data, 1),
                          Append(l, Write("graph", At(rt_args, i), {"copy_"})))
    ELSE GraphCopies(meta, i + 1, s, l)

\* the compiled forward returned (or raised) returns; kept is what its copy_ left
CompiledFwReturns(returns, kept) ==
    /\ store' = kept.store
    /\ log' = kept.log
    /\ IF returns.err # "" THEN
          /\ error' = returns.err
          /\ pc' = "raised"
          /\ all_outs' = all_outs
       ELSE
          /\ all_outs' = returns.val
          /\ pc' = "epilogue"
          /\ error' = error

\* CompiledFunction.forward wraps what the graph returned; the inference graph
\* is called as it is
ForwardReturns(fw_outs) ==
    LET num_forward_returns == num_mutated_inputs(compiled.meta) + num_outputs(compiled.meta)
                               + compiled.meta.num_intermediate_bases
        wrapped == TensorAliased(compiled.meta,
                       SubSeq(fw_outs, 1, IF Len(fw_outs) < num_forward_returns THEN Len(fw_outs)
                                          ELSE num_forward_returns)) IN
    IF ~compiled.trace_joint THEN Ok(fw_outs)
    ELSE IF wrapped.err # "" THEN wrapped
    ELSE Ok(mark_non_differentiable(wrapped.val,
                                    fw_outs_not_requiring_grad(compiled.meta, wrapped.val)))

\* call_func_with_args(compiled_fn, args) in runtime_wrapper
CompiledFw ==
    /\ pc = "forward"
    /\ CompiledFwReturns(
           ForwardReturns(GraphOuts(compiled.meta, compiled.trace_joint,
                                    aot_config.keep_inference_input_mutations)),
           IF aot_config.keep_inference_input_mutations /\ ~compiled.trace_joint
           THEN GraphCopies(compiled.meta, 0, store, log)
           ELSE [store |-> store, log |-> log])
    /\ UNCHANGED <<heap, compile_vars, deduped_args, rt_args, outs, backward>>

\* ----------------------------------------------------------- runtime_wrapper
\* the asserts of runtime_wrapper without those on len(all_outs)
ArityAsserts_IndicesOnly(runtime_metadata, keep_input_mutations) ==
    IF keep_input_mutations THEN
        Len(mutated_inp_runtime_indices(runtime_metadata)) = num_mutated_metadata_inputs(runtime_metadata)
    ELSE
        Len(mutated_inp_runtime_indices(runtime_metadata)) = num_mutated_inputs(runtime_metadata)

\* the asserts on the number of outputs of the compiled forward
ArityAsserts(runtime_metadata, keep_input_mutations) ==
    IF keep_input_mutations THEN
        /\ Len(all_outs) = num_mutated_metadata_inputs(runtime_metadata) + num_outputs(runtime_metadata)
                           + runtime_metadata.num_intermediate_bases
        /\ Len(mutated_inp_runtime_indices(runtime_metadata)) = num_mutated_metadata_inputs(runtime_metadata)
    ELSE
        /\ Len(all_outs) = num_mutated_inputs(runtime_metadata) + num_outputs(runtime_metadata)
                           + runtime_metadata.num_intermediate_bases
        /\ Len(mutated_inp_runtime_indices(runtime_metadata)) = num_mutated_inputs(runtime_metadata)

\* an as_strided_ that sets the storage offset and keeps the size
as_strided_OffsetOnly(t, updated_inpt) == [t EXCEPT !.off = updated_inpt.off]

\* t.as_strided_(size, stride, storage_offset)
as_strided_(t, updated_inpt) == [t EXCEPT !.off = updated_inpt.off, !.len = updated_inpt.len]

\* Step 3 without the copy_ of the branch for a data mutation
UpdateInput_NoCopy(t, s, meta, updated_inpt, trace_joint) ==
    Ok([tensor |-> IF meta.mutates_metadata THEN as_strided_(t, updated_inpt) ELSE t,
        store |-> s,
        op |-> IF meta.mutates_metadata THEN {"as_strided_"} ELSE {}])

\* what one iteration of the loop of Step 3 does to original_inpt
UpdateInput(t, s, meta, updated_inpt, trace_joint) ==
    LET resized == ~trace_joint /\ Cardinality(StorageElems) # updated_inpt.storage_size
        t1 == IF resized THEN [t EXCEPT !.len = updated_inpt.len] ELSE t
        strided == meta.mutates_metadata
        t2 == IF strided THEN as_strided_(t1, updated_inpt) ELSE t1
        copied == meta.mutates_data IN
    IF meta.mutates_metadata /\ ~meta.mutates_data /\ trace_joint /\ ~updated_inpt.alias
    THEN Raise("AssertionError")
    ELSE Ok([tensor |-> t2,
             store |-> IF copied THEN CopyInto(s, t2, updated_inpt.data, 1) ELSE s,
             op |-> (IF resized THEN {"resize_"} ELSE {}) \cup (IF strided THEN {"as_strided_"} ELSE {})
                    \cup (IF copied THEN {"copy_"} ELSE {})
                    \cup (IF copied /\ meta.is_leaf /\ t.rg THEN {"detach"} ELSE {})])

\* Step 3: the loop over runtime_metadata.mutated_inp_runtime_indices, from its
\* i-th entry on; err is what the loop raised, the rest what it did before
Updated(err, h, s, l) == [err |-> err, heap |-> h, store |-> s, log |-> l]

RECURSIVE UpdateInputs(_, _, _, _, _, _)
UpdateInputs(runtime_metadata, trace_joint, i, h, s, l) ==
    LET indices == mutated_inp_runtime_indices(runtime_metadata) IN
    IF i >= Len(indices) THEN Updated("", h, s, l)
    ELSE
    LET inpt_idx == At(indices, i)
        meta == At(runtime_metadata.input_info, inpt_idx) IN
    IF ~meta.mutates_data /\ ~meta.mutates_metadata
    THEN UpdateInputs(runtime_metadata, trace_joint, i + 1, h, s, l)
    ELSE IF inpt_idx >= Len(rt_args) \/ i >= Len(all_outs) THEN Updated("IndexError", h, s, l)
    ELSE
    LET original_inpt == At(rt_args, inpt_idx)
        u == UpdateInput(h[original_inpt], s, meta, At(all_outs, i), trace_joint) IN
    IF u.err # "" THEN Updated(u.err, h, s, l)
    ELSE UpdateInputs(runtime_metadata, trace_joint, i + 1,
                      [h EXCEPT ![original_inpt] = u.val.tensor], u.val.store,
                      Append(l, Write("runtime_wrapper", original_inpt, u.val.op)))

\* what the call returns for an output
Returned(how, base, val) == [how |-> how, base |-> base, val |-> val]

\* one iteration of the loop of Step 4, for output i of fw_outs_no_intermediate_bases
RegenerateOutput(runtime_metadata, trace_joint, fw_outs_no_intermediate_bases, intermediate_bases, i) ==
    LET o == At(fw_outs_no_intermediate_bases, i)
        info == At(runtime_metadata.output_info, i)
        o_ == [o EXCEPT !.alias = FALSE]
        base_tensor_list ==
            IF info.output_type = "alias_of_intermediate_base_is_user_output"
            THEN fw_outs_no_intermediate_bases ELSE intermediate_bases IN
    IF info.output_type \in {"non_alias", "unsafe_view_alias"} THEN Ok(Returned("compiled", <<"none", 0>>, o))
    ELSE IF trace_joint /\ ~o.alias THEN Raise("AssertionError")
    ELSE IF num_mutated_inputs(runtime_metadata) + i >= Len(runtime_metadata.requires_grad_info)
        THEN Raise("IndexError")
    ELSE IF info.base_idx = None THEN Raise("TypeError")
    ELSE IF info.output_type \in {"alias_of_input", "is_input"} THEN
        IF Get(info.base_idx) >= Len(rt_args) THEN Raise("IndexError")
        ELSE Ok(Returned(IF info.output_type = "is_input" THEN "input" ELSE "regenerated",
                         <<"arg", At(rt_args, Get(info.base_idx))>>, o_))
    ELSE IF Get(info.base_idx) >= Len(base_tensor_list) THEN Raise("IndexError")
    ELSE Ok(Returned("regenerated", At(base_tensor_list, Get(info.base_idx)).what, o_))

\* Step 4: the outputs that alias are regenerated from their base
RegenerateOutputs(runtime_metadata, trace_joint, fw_outs) ==
    LET nib == runtime_metadata.num_intermediate_bases
        fw_outs_no_intermediate_bases ==
            IF nib > 0 THEN SubSeq(fw_outs, 1, Len(fw_outs) - nib) ELSE fw_outs
        intermediate_bases ==
            IF nib > 0 THEN SubSeq(fw_outs, Len(fw_outs) - nib + 1, Len(fw_outs)) ELSE <<>>
        regenerated == [k \in 1..Len(fw_outs_no_intermediate_bases) |->
            RegenerateOutput(runtime_metadata, trace_joint, fw_outs_no_intermediate_bases,
                             intermediate_bases, k - 1)]
        failing == {k \in 1..Len(regenerated) : regenerated[k].err # ""} IN
    IF num_outputs_aliased(runtime_metadata) = 0
    THEN Ok([k \in 1..Len(fw_outs) |-> Returned("compiled", <<"none", 0>>, fw_outs[k])])
    ELSE IF Len(fw_outs_no_intermediate_bases) # Len(runtime_metadata.output_info) THEN Raise("AssertionError")
    ELSE IF failing # {} THEN regenerated[CHOOSE k \in failing : \A j \in failing : k <= j]
    ELSE Ok([k \in 1..Len(regenerated) |-> regenerated[k].val])

\* Step 3 left updated; Step 4 gives returned
RuntimeWrapperSteps(updated, returned) ==
    /\ heap' = updated.heap
    /\ store' = updated.store
    /\ log' = updated.log
    /\ IF updated.err # "" THEN
          /\ error' = updated.err
          /\ pc' = "raised"
          /\ outs' = outs
       ELSE IF returned.err # "" THEN
          /\ error' = returned.err
          /\ pc' = "raised"
          /\ outs' = outs
       ELSE
          /\ outs' = returned.val
          /\ pc' = IF synth.none THEN "returned" ELSE "synthetic_epilogue"
          /\ error' = error

\* runtime_wrapper after the compiled forward returned: Step 3 and Step 4
RuntimeWrapperEpilogue ==
    /\ pc = "epilogue"
    /\ IF ~ArityAsserts(compiled.meta, compiled.keep_input_mutations) THEN
          /\ error' = "AssertionError"
          /\ pc' = "raised"
          /\ UNCHANGED <<heap, store, log, outs>>
       ELSE
          RuntimeWrapperSteps(
              UpdateInputs(compiled.meta, compiled.trace_joint, 0, heap, store, log),
              RegenerateOutputs(compiled.meta, compiled.trace_joint,
                  SubSeq(all_outs, Len(mutated_inp_runtime_indices(compiled.meta)) + 1, Len(all_outs))))
    /\ UNCHANGED <<compile_vars, deduped_args, rt_args, all_outs, backward>>

\* wrapped_compiled_fn of aot_wrapper_synthetic_base after compiled_fn returned:
\* the metadata mutations of the merged arguments are applied to the arguments
RECURSIVE ApplyMetadataMutations(_, _, _, _)
ApplyMetadataMutations(k, mutated_metadata_inps, h, l) ==
    IF k > Len(synth.idx) \/ k > Len(mutated_metadata_inps) THEN [heap |-> h, log |-> l]
    ELSE LET inp == At(deduped_args, synth.idx[k]) IN
         ApplyMetadataMutations(k + 1, mutated_metadata_inps,
             [h EXCEPT ![inp] = as_strided_(h[inp], mutated_metadata_inps[k].val)],
             Append(l, Write("synthetic_base", inp, {"as_strided_"})))

SyntheticBaseEpilogue ==
    /\ pc = "synthetic_epilogue"
    /\ LET n == Len(synth.idx)
           \* outs[-n:] and outs[:-n]
           mutated_metadata_inps == SubSeq(outs, Max({1, Len(outs) - n + 1}), Len(outs))
           user_outs == SubSeq(outs, 1, Len(outs) - n)
           applied == ApplyMetadataMutations(1, mutated_metadata_inps, heap, log) IN
       /\ heap' = IF n > 0 THEN applied.heap ELSE heap
       /\ log' = IF n > 0 THEN applied.log ELSE log
       /\ outs' = IF n > 0 THEN user_outs ELSE outs
    /\ pc' = "returned"
    /\ UNCHANGED <<store, compile_vars, deduped_args, rt_args, all_outs, backward, error>>

\* what a compiled forward returns when the compiler handed to aot_config did
\* not keep the outputs of the graph: the last one dropped, or one more
WithOtherArity(graph_outs) ==
    {SubSeq(graph_outs, 1, Len(graph_outs) - 1) : k \in {1} \cap (1..Len(graph_outs))}
    \cup {Append(graph_outs, Value(<<"out", Len(graph_outs)>>, <<0>>, 0, 2))}

OtherCompiledFwReturns(fw_outs_set, kept) ==
    \E fw_outs \in fw_outs_set : CompiledFwReturns(ForwardReturns(fw_outs), kept)

\* call_func_with_args(compiled_fn, args) in runtime_wrapper, of a forward
\* compiled by a compiler that changed the number of outputs
OtherCompiledFw ==
    /\ pc = "forward"
    /\ OtherCompiledFwReturns(
           WithOtherArity(GraphOuts(compiled.meta, compiled.trace_joint,
                                    aot_config.keep_inference_input_mutations)),
           IF aot_config.keep_inference_input_mutations /\ ~compiled.trace_joint
           THEN GraphCopies(compiled.meta, 0, store, log)
           ELSE [store |-> store, log |-> log])
    /\ UNCHANGED <<heap, compile_vars, deduped_args, rt_args, outs, backward>>

\* ------------------------------------------------ CompiledFunction.backward
\* every incoming gradient is passed on to the compiled backward
flat_bw_args_Unfiltered(meta, flat_args_) ==
    IF Len(flat_args_) # num_outputs(meta) + num_mutated_inputs(meta) + meta.num_intermediate_bases
    THEN Raise("AssertionError")
    ELSE Ok(flat_args_)

\* the gradients of the outputs that alias and of the inputs with a
\* metadata-only mutation are filtered out, and those of the outputs that are
\* no tensors
flat_bw_args(meta, flat_args_) ==
    LET num_mutated_inps == num_mutated_inputs(meta)
        inp_tangents == SubSeq(flat_args_, 1, num_mutated_inps)
        out_tangents == SubSeq(flat_args_, num_mutated_inps + 1, num_mutated_inps + num_outputs(meta))
        intermediate_base_tangents ==
            SubSeq(flat_args_, num_mutated_inps + num_outputs(meta) + 1, Len(flat_args_))
        inp_tangents_filtered ==
            SelectSeq(Idx0(inp_tangents),
                      LAMBDA i : At(meta.input_info, At(mutated_inp_indices(meta), i)).mutates_data)
        out_tangents_filtered ==
            SelectSeq(Idx0(out_tangents), LAMBDA i : IsTangentOutput(At(meta.output_info, i)))
        user_tangents == SubSeq(flat_args_, num_mutated_inps + 1, Len(flat_args_))
        filtered_user_tangents ==
            SelectSeq(Idx0(user_tangents), LAMBDA i : At(meta.output_info, i).raw_type = "Tensor") IN
    IF Len(flat_args_) # num_outputs(meta) + num_mutated_inps + meta.num_intermediate_bases
    THEN Raise("AssertionError")
    ELSE IF num_mutated_metadata_only_inputs(meta) > 0 \/ num_outputs_aliased(meta) > 0 THEN
        IF Len(inp_tangents) # Len(mutated_inp_indices(meta)) THEN Raise("AssertionError")
        ELSE Ok([k \in 1..Len(inp_tangents_filtered) |-> At(inp_tangents, inp_tangents_filtered[k])]
                \o [k \in 1..Len(out_tangents_filtered) |-> At(out_tangents, out_tangents_filtered[k])]
                \o intermediate_base_tangents)
    ELSE IF Len(user_tangents) # Len(meta.output_info) THEN Raise("AssertionError")
    ELSE Ok(inp_tangents
            \o [k \in 1..Len(filtered_user_tangents) |-> At(user_tangents, filtered_user_tangents[k])])

\* the compiled backward is called without CompiledFunctionBackward unless
\* every argument requires grad
ConnectsGraph_All(grad_enabled, all_args) ==
    grad_enabled /\ \A k \in 1..Len(all_args) : all_args[k].tensor /\ all_args[k].requires_grad

\* torch.is_grad_enabled() and any(t.requires_grad for t in all_args if isinstance(t, torch.Tensor))
ConnectsGraph(grad_enabled, all_args) ==
    grad_enabled /\ \E k \in 1..Len(all_args) : all_args[k].tensor /\ all_args[k].requires_grad

\* CompiledFunction.backward from all_args on: through CompiledFunctionBackward
\* or by call_compiled_backward; what the compiled backward computes requires
\* grad when gradient mode is enabled and one of its arguments does
\* a call_compiled_backward that compiles the backward whatever is stored
compiled_bw_is_None_Always(compiled_bw) == TRUE

\* call_compiled_backward: "if CompiledFunction.compiled_bw is None"
compiled_bw_is_None(compiled_bw) == compiled_bw = None

BackwardReturns(grad_enabled, flat_args_, saved_tensors, bw_args, bw_compiler_raises) ==
    LET \* t.contiguous() requires grad when t does and gradient mode is enabled
        contiguous_args == [k \in 1..Len(bw_args.val) |->
                               [bw_args.val[k] EXCEPT !.requires_grad = @ /\ grad_enabled]]
        all_args == saved_tensors \o contiguous_args
        compiles == compiled_bw_is_None(compiled.compiled_bw)
        raised == IF bw_args.err # "" THEN bw_args.err
                  ELSE IF compiles /\ \E k \in 1..Len(all_args) : ~all_args[k].tensor
                  THEN "AssertionError"
                  ELSE IF compiles /\ bw_compiler_raises THEN "Exception"
                  ELSE "" IN
    IF raised # "" THEN
       /\ error' = raised
       /\ pc' = "backward_raised"
       /\ compiled' = compiled
       /\ backward' = [backward EXCEPT !.ran = FALSE, !.calls = @ + 1,
                                       !.bw_compiler_calls =
                                           IF raised = "Exception" THEN @ + 1 ELSE @]
    ELSE
       /\ compiled' = [compiled EXCEPT !.compiled_bw = aot_config.bw_compiler]
       /\ backward' = [ran |-> TRUE, grad_enabled |-> grad_enabled, flat_args |-> flat_args_,
                       saved_tensors |-> saved_tensors, flat_bw_args |-> bw_args.val,
                       grad_fn |-> IF ConnectsGraph(grad_enabled, all_args)
                                   THEN "CompiledFunctionBackward" ELSE "",
                       requires_grad |->
                           grad_enabled /\ \E k \in 1..Len(all_args) :
                                               all_args[k].tensor /\ all_args[k].requires_grad,
                       calls |-> backward.calls + 1,
                       bw_compiler_calls |->
                           backward.bw_compiler_calls + (IF compiles THEN 1 ELSE 0)]
       /\ pc' = "backward_returned"
       /\ error' = error

\* autograd gives a gradient to the outputs of CompiledFunction.forward that
\* are tensors: not to those wrapped in TensorAlias, not to those that are no tensors
GetsGradient(k) ==
    /\ ~all_outs[k].alias
    /\ (k > num_mutated_inputs(compiled.meta)
        /\ k <= num_mutated_inputs(compiled.meta) + num_outputs(compiled.meta)) =>
          At(compiled.meta.output_info, k - 1 - num_mutated_inputs(compiled.meta)).raw_type = "Tensor"

\* the most calls of CompiledFunction.backward
MaxBackwardCalls == 2

\* CompiledFunction.backward(ctx, *flat_args), with gradient mode enabled or
\* not, with saved tensors and at most one gradient that require grad; the
\* backward compiler, when it is called, raises or not
call_backward ==
    /\ compiled.trace_joint
    /\ backward.calls < MaxBackwardCalls
    /\ \E grad_enabled \in BOOLEAN, requiring \in 0..Len(all_outs),
          saved_tensors \in {<<>>, <<GradOutput(TRUE, FALSE)>>, <<GradOutput(TRUE, TRUE)>>},
          bw_compiler_raises \in (IF compiled.compiled_bw = None THEN BOOLEAN ELSE {FALSE}) :
          LET flat_args_ == [k \in 1..Len(all_outs) |->
                                IF GetsGradient(k) THEN GradOutput(TRUE, k = requiring)
                                ELSE GradOutput(FALSE, FALSE)] IN
          BackwardReturns(grad_enabled, flat_args_, saved_tensors,
                          flat_bw_args(compiled.meta, flat_args_), bw_compiler_raises)
    /\ UNCHANGED <<world, heap, store, flat_args, flat_fn, aot_config, fw_metadata, dedupe, synth,
                   deduped_args, rt_args, all_outs, outs, log>>

\* the backward of the outputs of a call that returned
Backward == pc = "returned" /\ call_backward

\* one more backward of the same outputs, after a backward that returned or raised
BackwardAgain == pc \in {"backward_returned", "backward_raised"} /\ call_backward

\* autograd differentiates through what CompiledFunction.backward returned
DoubleBackward ==
    /\ pc = "backward_returned"
    /\ backward.requires_grad
    /\ IF backward.grad_fn = "CompiledFunctionBackward" THEN
          /\ error' = "RuntimeError"
          /\ pc' = "raised"
       ELSE
          /\ error' = error
          /\ pc' = "double_backward_returned"
    /\ UNCHANGED <<heap, store, compile_vars, runtime_vars>>

\* the most call nodes of a graph handed to assert_functional_graph on its own
MaxNodes == 2

\* the graphs with two inputs: the placeholders first, then call nodes whose
\* first argument is an input or the first call node, then the output
Graphs ==
    {<<Node(1, "placeholder", "", 0, TRUE), Node(2, "placeholder", "", 0, TRUE)>>
     \o [k \in 1..Len(calls) |-> Node(2 + k, "call_function", calls[k][1], calls[k][2], FALSE)]
     \o <<Node(3 + Len(calls), "output", "output", 0, TRUE)>> :
        calls \in SeqsUpTo((OpOverloads \cup {"operator.getitem"}) \X {1, 2, 3}, MaxNodes)}

\* inference compilations, with and without keep_inference_input_mutations, and
\* graphs handed to assert_functional_graph
InitGraphs ==
    /\ world = "inference_view"
    /\ heap = WorldHeap(world)
    /\ aot_config \in ConfigsOf(BOOLEAN)
    /\ \/ /\ flat_args \in SeqsUpTo(Tensors, MaxArgs) \ {<<>>}
          /\ flat_fn \in Functions(flat_args, MaxOuts - 1)
          /\ Start
       \/ /\ flat_args = <<>>
          /\ flat_fn = [mut |-> <<>>, outs |-> <<>>]
          /\ store = [st \in Storages |-> [e \in StorageElems |-> 0]]
          /\ pc = "check_graph"
          /\ fw_metadata = NoMeta
          /\ dedupe = NoDedupe
          /\ synth = NoSynth
          /\ compiled \in {[NoCompiled EXCEPT !.graph = g] : g \in Graphs}
          /\ deduped_args = <<>>
          /\ rt_args = <<>>
          /\ all_outs = <<>>
          /\ outs = <<>>
          /\ log = <<>>
          /\ backward = NoBackward
          /\ error = ""

\* ------------------------------------------------------------ aot_function
\* aot_function(fn, fw_compiler, bw_compiler, inference_compiler=...) is called
\* and then the function it returns, for the first time: cached_res is None
InitCalls ==
    /\ world \in {"inference_view", "autograd"}
    /\ heap = WorldHeap(world)
    /\ flat_args \in SeqsUpTo(Tensors, MaxArgs - 1) \ {<<>>}
    /\ flat_fn \in {f \in Functions(flat_args, MaxOuts - 1) :
                       \A i \in 1..Len(f.mut) : f.mut[i] \in {"none", "data"}}
    /\ aot_config \in {AOTConfig(Some("fw_compiler"), Some("bw_compiler"), inference_compiler, FALSE) :
                          inference_compiler \in {None, Some("inference_compiler")}}
    /\ store = [st \in Storages |-> [e \in StorageElems |-> 0]]
    /\ pc = "aot_function"
    /\ fw_metadata = NoMeta
    /\ dedupe = NoDedupe
    /\ synth = NoSynth
    /\ compiled = NoCompiled
    /\ deduped_args = <<>>
    /\ rt_args = <<>>
    /\ all_outs = <<>>
    /\ outs = <<>>
    /\ log = <<>>
    /\ backward = NoBackward
    /\ error = ""

\* aot_function builds the AOTConfig; the first call of returned_function
\* follows
AotFunction ==
    /\ pc = "aot_function"
    /\ aot_config' = aot_function(aot_config)
    /\ pc' = "analyze"
    /\ UNCHANGED <<world, heap, store, flat_args, flat_fn, fw_metadata, dedupe, synth, compiled,
                   runtime_vars, error>>

\* a returned_function that has no cache
cached_res_Forgotten == None

\* cached_res of aot_function: None, or the compiled function
cached_res == IF compiled = NoCompiled THEN None ELSE Some(compiled)

\* returned_function, called once more after a call that returned or raised,
\* with other arguments of the function: create_aot_dispatcher_function runs
\* if cached_res is None, the cached function is called otherwise
returned_function ==
    /\ pc \in {"failed", "raised", "returned", "backward_returned", "backward_raised"}
    /\ \E args \in SeqsUpTo(Tensors, MaxArgs - 1) :
          /\ Len(args) = Len(flat_args)
          \* the function is one of Functions(args, MaxOuts - 1)
          /\ \A i, j \in 1..Len(args) :
                /\ flat_fn.mut[i] \in ObjectMutKinds(args[i])
                /\ args[i] = args[j] => flat_fn.mut[i] = flat_fn.mut[j]
          /\ flat_args' = args
    /\ IF cached_res = None
       THEN /\ pc' = "analyze"
            /\ fw_metadata' = NoMeta
            /\ dedupe' = NoDedupe
            /\ synth' = NoSynth
       ELSE /\ pc' = "compiled"
            /\ UNCHANGED <<fw_metadata, dedupe, synth>>
    /\ deduped_args' = <<>>
    /\ rt_args' = <<>>
    /\ all_outs' = <<>>
    /\ outs' = <<>>
    /\ log' = <<>>
    /\ backward' = [NoBackward EXCEPT !.calls = backward.calls,
                                      !.bw_compiler_calls = backward.bw_compiler_calls]
    /\ error' = ""
    /\ UNCHANGED <<world, heap, store, flat_fn, aot_config, compiled>>

\* assert_functional_graph(fx_g, allow_input_mutations=...) on a graph of its own
AssertFunctionalGraph ==
    /\ pc = "check_graph"
    /\ LET copy_count == assert_functional_graph(compiled.graph,
                             aot_config.keep_inference_input_mutations, 1, {}, 0) IN
       /\ pc' = IF copy_count.err = "" THEN "graph_accepted" ELSE "graph_rejected"
       /\ error' = copy_count.err
    /\ UNCHANGED <<heap, store, compile_vars, runtime_vars>>

Next ==
    \/ CollectMetadata
    \/ AotWrapperDedupe
    \/ AotWrapperSyntheticBase
    \/ AotDispatch
    \/ CallCompiledFn
    \/ CompiledFw
    \/ RuntimeWrapperEpilogue
    \/ SyntheticBaseEpilogue

Spec == Init /\ [][Next]_vars

SpecLists == InitLists /\ [][Next]_vars

SpecViews == InitViews /\ [][Next]_vars

SpecRequiresGrad == InitRequiresGrad /\ [][Next]_vars

SpecOutputs == InitOutputs /\ [][Next]_vars

\* calls in which autograd is needed, with the backward of their outputs
SpecBackward == Init /\ [][Backward \/ DoubleBackward \/ Next]_vars

\* calls of forwards compiled by any compiler
SpecCompilers == Init /\ [][OtherCompiledFw \/ Next]_vars

\* aot_function and a sequence of calls of the function it returned, with the
\* backward of their outputs
SpecCalls == InitCalls /\ [][AotFunction \/ returned_function \/ Backward \/ BackwardAgain \/ Next]_vars

SpecGraphs == InitGraphs /\ [][AssertFunctionalGraph \/ Next]_vars

\* ------------------------------------------------------------------ claims
\* the values a tensor reads
ReadRegion(t) == [j \in 1..t.len |-> store[t.st][t.off + j - 1]]

IsDataOnly(x) == x.mutates_data /\ ~x.mutates_metadata

\* the positions of the call's arguments the function mutates data-only
DataOnlyArgs == {q \in 1..Len(flat_args) : q <= Len(fw_metadata.input_info) /\ IsDataOnly(fw_metadata.input_info[q])}

\* runtime_wrapper has returned and no wrapper around it has acted yet
RuntimeWrapperReturned == pc = "synthetic_epilogue" \/ (pc = "returned" /\ synth.none)

\* C1: when a call of a function compiled with keep_input_mutations false
\* returns, every argument x the function mutates data-only is the object it
\* was, on the same storage with the same geometry, every element it reads
\* holds the value the mutation writes (what eager execution leaves), and every
\* argument of runtime_wrapper with a data-only mutation is, when
\* runtime_wrapper returns, on the storage it was on and reads the updated
\* value the compiled forward returned for it.
C1_MutatedInputHoldsUpdate ==
    /\ (pc = "returned" /\ ~compiled.keep_input_mutations) =>
          \A q \in DataOnlyArgs :
              /\ heap[flat_args[q]] = WorldHeap(world)[flat_args[q]]
              /\ \A e \in Region(heap[flat_args[q]]) : store[heap[flat_args[q]].st][e] = MutatedValue
    /\ (RuntimeWrapperReturned /\ ~compiled.keep_input_mutations) =>
          \A i \in 1..Len(mutated_inp_runtime_indices(compiled.meta)) :
              LET inpt_idx == mutated_inp_runtime_indices(compiled.meta)[i] IN
              IsDataOnly(At(compiled.meta.input_info, inpt_idx)) =>
                  /\ At(rt_args, inpt_idx) \in DOMAIN WorldHeap(world) =>
                        heap[At(rt_args, inpt_idx)].st = WorldHeap(world)[At(rt_args, inpt_idx)].st
                  /\ ReadRegion(heap[At(rt_args, inpt_idx)]) = all_outs[i].data

C1_Witness ==
    /\ pc = "returned"
    /\ ~compiled.keep_input_mutations
    /\ DataOnlyArgs # {}
    /\ \E k \in 1..Len(log) : log[k].by = "runtime_wrapper" /\ "copy_" \in log[k].op

\* the pairs of positions (a, b) of the arguments given to the wrapper of
\* aot_wrapper_synthetic_base: distinct tensors on one storage, a data-mutated
AliasedPairs ==
    {p \in (1..Len(deduped_args)) \X (1..Len(deduped_args)) :
        /\ deduped_args[p[1]] # deduped_args[p[2]]
        /\ heap[deduped_args[p[1]]].tensor /\ heap[deduped_args[p[2]]].tensor
        /\ heap[deduped_args[p[1]]].st = heap[deduped_args[p[2]]].st
        /\ HasData(dedupe.fn.mut[p[1]])}

\* the elements b reads that the mutation of a wrote
SharedElements(p) ==
    Region(WorldHeap(world)[deduped_args[p[1]]]) \cap Region(heap[deduped_args[p[2]]])

\* C2: after a call of a function compiled through aot_wrapper_synthetic_base
\* with synthetic bases, for distinct arguments a and b on one storage where
\* the function data-mutates a, every storage element b reads that the mutation
\* of a wrote holds the mutated value.
C2_AliasSeesMutation ==
    (pc = "returned" /\ ~synth.none) =>
        \A p \in AliasedPairs :
            \A e \in SharedElements(p) : store[heap[deduped_args[p[2]]].st][e] = MutatedValue

C2_Witness ==
    /\ pc = "returned"
    /\ ~synth.none
    /\ \E p \in AliasedPairs : SharedElements(p) # {}

\* the writes a step adds to the log
NewWrites == SubSeq(log', Len(log) + 1, Len(log'))

\* the writes of Step 3 of runtime_wrapper: one per runtime-mutated input, in order
RuntimeWrapperWrites ==
    /\ pc = "epilogue"
    /\ Len(NewWrites) = Len(mutated_inp_runtime_indices(compiled.meta))
    /\ \A k \in 1..Len(NewWrites) :
          /\ NewWrites[k].by = "runtime_wrapper"
          /\ NewWrites[k].arg = At(rt_args, mutated_inp_runtime_indices(compiled.meta)[k])

\* the copy_ the compiled graph keeps: inference with keep_inference_input_mutations,
\* one per input with a data-only mutation
GraphWrites ==
    /\ pc = "forward"
    /\ aot_config.keep_inference_input_mutations /\ ~compiled.trace_joint
    /\ \A k \in 1..Len(NewWrites) :
          /\ NewWrites[k].by = "graph"
          /\ NewWrites[k].op = {"copy_"}
          /\ \E i \in 1..Len(rt_args) :
                NewWrites[k].arg = rt_args[i] /\ IsDataOnly(compiled.meta.input_info[i])

\* the as_strided_ of the wrapper of aot_wrapper_synthetic_base, after compiled_fn
\* returned: one per merged argument with a metadata mutation
SyntheticBaseWrites ==
    /\ pc = "synthetic_epilogue"
    /\ Len(NewWrites) = Len(synth.idx)
    /\ \A k \in 1..Len(NewWrites) :
          /\ NewWrites[k].by = "synthetic_base"
          /\ NewWrites[k].op = {"as_strided_"}
          /\ NewWrites[k].arg = At(deduped_args, synth.idx[k])

\* C3 as stated: every write to an argument of the call is made by Step 3 of
\* runtime_wrapper, once per runtime-mutated input, after the compiled forward
\* returned.
C3_OnlyRuntimeWrapperWrites == [][log' # log => RuntimeWrapperWrites]_vars

\* C3 as amended: the arguments of the call are written by Step 3 of
\* runtime_wrapper (once per runtime-mutated input, after the compiled forward
\* returned), by the copy_ kept in the compiled graph for the inputs with a
\* data-only mutation when keep_inference_input_mutations is set in inference,
\* and by the as_strided_ of the synthetic-base wrapper on the merged arguments
\* with a metadata mutation after compiled_fn returned; by nothing else.
C3_WritersOfArguments ==
    [][log' # log => (RuntimeWrapperWrites \/ GraphWrites \/ SyntheticBaseWrites)]_vars

C3_Witness ==
    /\ pc = "returned"
    /\ \E k \in 1..Len(log) : log[k].by = "runtime_wrapper"
    /\ \E k \in 1..Len(log) : log[k].by = "synthetic_base"

\* C4: whenever aot_wrapper_dedupe takes strategy 2, the metadata
\* remove_dupe_metadata derives equals, under ViewAndMutationMeta.__eq__, the
\* metadata the analyzer computes on the deduplicated arguments with the
\* wrapped function that adds the duplicates back.
C4_DedupedMetadataMatches ==
    dedupe.strategy = 2 => MetaEq(dedupe.ref, dedupe.meta)

\* C5: whenever merge_view_inputs creates a synthetic base and
\* create_synthetic_base_metadata returns, the metadata it derives equals,
\* under ViewAndMutationMeta.__eq__, the metadata the analyzer computes on the
\* base-merged arguments with the wrapped function that unpacks the bases.
C5_SyntheticBaseMetadataMatches ==
    (pc = "dispatch" /\ ~synth.none) => MetaEq(synth.ref, synth.meta)

\* f(x) = { out1 = x.t(); tmp = x.mul(2); out2 = tmp.view(-1) }, x requires grad
C7_Scenario ==
    /\ world \in {"autograd", "autograd_leaf"}
    /\ flat_args = <<TensorA>>
    /\ flat_fn = [mut |-> <<"none">>, outs |-> <<OutDesc("view", 0), OutDesc("vint", 0)>>]

\* C7: for that f the analyzer reports one intermediate base, the compiled
\* forward returns it after the two user outputs, and the call returns out1
\* regenerated from the input and out2 regenerated from the intermediate base.
C7_IntermediateBaseRegenerated ==
    C7_Scenario =>
        /\ pc # "analyze" => fw_metadata.num_intermediate_bases = 1
        /\ pc \in {"epilogue", "returned"} =>
              /\ Len(all_outs) = 3
              /\ all_outs[3].what = <<"base", 0>>
        /\ pc = "returned" =>
              /\ Len(outs) = 2
              /\ outs[1].how = "regenerated" /\ outs[1].base = <<"arg", TensorA>>
              /\ outs[2].how = "regenerated" /\ outs[2].base = <<"base", 0>>

\* every metadata the compilation has produced so far
ProducedMetadata ==
    (IF pc # "analyze" THEN {fw_metadata} ELSE {})
    \cup (IF dedupe.strategy # 0 THEN {dedupe.meta} ELSE {})
    \cup (IF dedupe.strategy = 2 THEN {dedupe.ref} ELSE {})
    \cup (IF pc \in {"dispatch", "compiled", "forward", "epilogue", "synthetic_epilogue", "returned", "raised"}
          THEN {synth.meta} ELSE {})
    \cup (IF ~synth.none THEN {synth.ref} ELSE {})

ProducedOutputInfo == UNION {Range(m.output_info) : m \in ProducedMetadata}

\* C8 as stated: in every OutputAliasInfo of the analyzer, of
\* remove_dupe_metadata and of create_synthetic_base_metadata, base_idx is None
\* if and only if output_type is non_alias.
C8_BaseIdxNoneIffNonAlias ==
    \A o \in ProducedOutputInfo : (o.base_idx = None) <=> (o.output_type = "non_alias")

\* C8 as amended: in every such OutputAliasInfo base_idx is None if and only if
\* output_type is non_alias or unsafe_view_alias; an output of any other type
\* carries an integer base_idx.
C8_BaseIdxNoneIffNoBase ==
    \A o \in ProducedOutputInfo :
        (o.base_idx = None) <=> (o.output_type \in {"non_alias", "unsafe_view_alias"})

C8_Witness ==
    /\ pc = "dispatch"
    /\ dedupe.strategy = 2
    /\ ~synth.none
    /\ \E o \in Range(synth.meta.output_info) : o.output_type = "unsafe_view_alias"
    /\ \E o \in Range(synth.meta.output_info) : o.output_type = "alias_of_input"
    /\ \E o \in Range(dedupe.meta.output_info) : o.output_type = "unsafe_view_alias"

\* C6: for the keep_arg_mask and add_dupe_map of strategy 2,
\* remove_dupe_args(add_dupe_args(d)) is d for a deduplicated list d of
\* unique_args distinct values, and add_dupe_args(remove_dupe_args(args)) is
\* position by position the same instance as args for the list the maps were
\* built from.
C6_DupeArgsRoundTrip ==
    dedupe.strategy = 2 =>
        /\ LET d == [k \in 1..unique_args(heap, flat_args) |-> k] IN
           /\ add_dupe_args(d, dedupe.map, Len(flat_args)).err = ""
           /\ remove_dupe_args(add_dupe_args(d, dedupe.map, Len(flat_args)).val, dedupe.mask) = d
        /\ add_dupe_args(remove_dupe_args(flat_args, dedupe.mask), dedupe.map, Len(flat_args))
           = Ok(flat_args)

\* merge_view_inputs as aot_wrapper_synthetic_base calls it when compiling
MergeWhenCompiling ==
    merge_view_inputs(heap, dedupe.args, dedupe.meta.input_info, ~needs_autograd, CompileBase)

\* the groups of dedupe.args merge_view_inputs replaces by a synthetic base
GroupsToMerge ==
    GroupsOf(heap, dedupe.args, MergedGroupsOrder(heap, dedupe.args, dedupe.meta.input_info))

\* merge_view_inputs is about to be called, creates a base and none of its
\* asserts on the views it merges fails
CreatesSyntheticBase ==
    /\ pc = "synthetic_base"
    /\ Len(dedupe.args) = Len(dedupe.meta.input_info)
    /\ Len(GroupsToMerge) > 0
    /\ \A k \in 1..Len(GroupsToMerge) : GroupAccepted(heap, dedupe.args, GroupsToMerge[k], ~needs_autograd)

\* the mapping info has one entry per argument of fwd_inputs, every entry is
\* valid for the returned list args, and no inner index of a non-base argument
\* is used twice
ValidCallingConvention(fwd_inputs, args, info, num_bases) ==
    /\ Len(info) = Len(fwd_inputs)
    /\ \A i \in 1..Len(info) :
          IF info[i].tuple THEN info[i].idx \in 0..(num_bases - 1)
          ELSE info[i].idx \in num_bases..(Len(args) - 1)
    /\ \A i, j \in 1..Len(info) :
          (i # j /\ ~info[i].tuple /\ ~info[j].tuple) => info[i].idx # info[j].idx

\* C9: whenever merge_view_inputs creates a synthetic base it returns a mapping
\* with one entry per outer argument, each entry the inner index of a non-base
\* argument or a (base index, view) pair with a valid base index, no inner
\* non-base index used for two outer arguments; so the assertion on
\* len(synthetic_base_info) holds.
C9_OneEntryPerOuterArgument ==
    CreatesSyntheticBase =>
        /\ MergeWhenCompiling.err = ""
        /\ ~MergeWhenCompiling.val.none
        /\ ValidCallingConvention(dedupe.args, MergeWhenCompiling.val.args,
                                  MergeWhenCompiling.val.info, Len(GroupsToMerge))
        /\ Len(dedupe.meta.input_info) = Len(MergeWhenCompiling.val.info)

\* merge_view_inputs returned a list with synthetic bases
ReturnsSyntheticBases ==
    CreatesSyntheticBase /\ MergeWhenCompiling.err = "" /\ ~MergeWhenCompiling.val.none

\* the first position in fwd_inputs of a tensor on the storage of argument i
FirstOnStorage(h, fwd_inputs, i) ==
    CHOOSE j \in 0..i :
        /\ h[At(fwd_inputs, j)].tensor /\ h[At(fwd_inputs, j)].st = h[At(fwd_inputs, i)].st
        /\ \A l \in 0..(j - 1) :
              ~(h[At(fwd_inputs, l)].tensor /\ h[At(fwd_inputs, l)].st = h[At(fwd_inputs, i)].st)

\* the bases come first, in the order of the first member of their groups, the
\* other arguments follow, each at the inner index of its entry
BasesFirst(h, fwd_inputs, args, info, num_bases) ==
    /\ Len(args) = num_bases + Cardinality({i \in 1..Len(info) : ~info[i].tuple})
    /\ \A i \in 1..Len(info) :
          IF info[i].tuple THEN info[i].idx < num_bases
          ELSE info[i].idx >= num_bases /\ At(args, info[i].idx) = fwd_inputs[i]
    /\ \A i, j \in 1..Len(info) :
          (info[i].tuple /\ info[j].tuple
           /\ FirstOnStorage(h, fwd_inputs, i - 1) < FirstOnStorage(h, fwd_inputs, j - 1))
          => info[i].idx < info[j].idx

\* argument i comes before argument j (outer indices from 0) in other_args:
\* non-tensors first, then the tensors storage by storage, the storages by
\* their first tensor
OtherArgBefore(h, fwd_inputs, i, j) ==
    IF ~h[At(fwd_inputs, i)].tensor THEN h[At(fwd_inputs, j)].tensor \/ i < j
    ELSE /\ h[At(fwd_inputs, j)].tensor
         /\ \/ FirstOnStorage(h, fwd_inputs, i) < FirstOnStorage(h, fwd_inputs, j)
            \/ FirstOnStorage(h, fwd_inputs, i) = FirstOnStorage(h, fwd_inputs, j) /\ i < j

MergedMetadataMutated ==
    SelectSeq(Idx0(dedupe.meta.input_info), LAMBDA o :
        At(dedupe.meta.input_info, o).mutates_metadata /\ At(synth.info, o).tuple)

\* the outer indices (from 0) that map to inner argument p
OuterOf(p) == {o \in 0..(Len(synth.info) - 1) : At(synth.info, o).idx = p}

\* C11: the metadata create_synthetic_base_metadata returns gives every
\* merged-base input mutates_data = True and mutates_metadata = False and every
\* other input the flags of its single outer argument; its outputs are the
\* original outputs followed by one alias_of_input output per merged alias with
\* a metadata mutation, in increasing outer-index order, with the base index of
\* that alias.  When the call returns, the wrapper has removed those trailing
\* outputs, every such alias has the size and offset its metadata mutation
\* gives it, and the call returns the outputs of the user's function only.
C11_MetadataMutationsAsOutputs ==
    /\ (pc \in {"dispatch", "compiled"} /\ ~synth.none) =>
          /\ \A p \in 0..(Len(synth.meta.input_info) - 1) :
                IF Cardinality(OuterOf(p)) > 1
                THEN At(synth.meta.input_info, p).mutates_data
                     /\ ~At(synth.meta.input_info, p).mutates_metadata
                ELSE \A o \in OuterOf(p) :
                        /\ At(synth.meta.input_info, p).mutates_data
                           = At(dedupe.meta.input_info, o).mutates_data
                        /\ At(synth.meta.input_info, p).mutates_metadata
                           = At(dedupe.meta.input_info, o).mutates_metadata
          /\ Len(synth.meta.output_info) = Len(dedupe.meta.output_info) + Len(MergedMetadataMutated)
          /\ \A k \in 1..Len(MergedMetadataMutated) :
                synth.meta.output_info[Len(dedupe.meta.output_info) + k]
                = OutputAliasInfo("alias_of_input", "Tensor",
                                  Some(At(synth.info, MergedMetadataMutated[k]).idx))
    /\ (pc = "returned" /\ ~synth.none) =>
          /\ Len(outs) = Len(flat_fn.outs)
          /\ \A k \in 1..Len(outs) : outs[k].val.what = <<"out", k - 1>>
          /\ \A k \in 1..Len(MergedMetadataMutated) :
                LET x == At(deduped_args, MergedMetadataMutated[k]) IN
                /\ heap[x].off = MetadataMutation(WorldHeap(world)[x]).off
                /\ heap[x].len = MetadataMutation(WorldHeap(world)[x]).len

C11_Witness ==
    /\ pc = "returned"
    /\ ~synth.none
    /\ Len(MergedMetadataMutated) > 0
    /\ Len(flat_fn.outs) > 0
    /\ \E k \in 1..Len(MergedMetadataMutated) :
          heap[At(deduped_args, MergedMetadataMutated[k])]
          # WorldHeap(world)[At(deduped_args, MergedMetadataMutated[k])]

\* the members of a group (a list of positions of dedupe.args, from 0)
Members(g) == {At(dedupe.args, g[k]) : k \in 1..Len(g)}

\* the members of the group share one differentiable base: an object every
\* member is, or is a view of
CommonBase(g) == \E b \in DOMAIN heap : \A x \in Members(g) : x = b \/ heap[x].base = b

\* some member of the group is a view of a base
SomeBase(g) == \E x \in Members(g) : heap[x].base # 0

\* the members differ in dtype from each other or from their bases
DtypeMismatch(g) ==
    \/ \E x, y \in Members(g) : heap[x].dtype # heap[y].dtype
    \/ \E x \in Members(g) : heap[x].base # 0 /\ heap[heap[x].base].dtype # heap[x].dtype

\* merge_view_inputs is about to be called on lists of one length
MergeCalled == pc = "synthetic_base" /\ Len(dedupe.args) = Len(dedupe.meta.input_info)

\* C12 as stated: merge_view_inputs raises an assertion error, and returns no
\* merged list, exactly when some group of two or more storage-sharing inputs
\* with a data-mutated member has members that differ in dtype from each other
\* or from their bases, or (autograd only) has no common differentiable base;
\* so a group without a data-mutated member is never rejected and in inference
\* no group is rejected for lacking a common differentiable base.
C12_RejectsUnsupportedAliases ==
    MergeCalled =>
        /\ (MergeWhenCompiling.err = "AssertionError") <=>
              \E k \in 1..Len(GroupsToMerge) :
                  \/ DtypeMismatch(GroupsToMerge[k])
                  \/ needs_autograd /\ ~CommonBase(GroupsToMerge[k])
        /\ MergeWhenCompiling.err # "" => MergeWhenCompiling.val = <<>>

\* C12 as amended: merge_view_inputs raises an assertion error, and returns no
\* merged list, exactly when some group of two or more storage-sharing inputs
\* with a data-mutated member has members that differ in dtype from each other
\* or from their bases, or has no common differentiable base and either the
\* compilation is for autograd or some member of the group has a ._base; a
\* group without a data-mutated member is never rejected, and in inference a
\* group none of whose members has a ._base is never rejected for lacking a
\* common base.
C12_RejectsMixedBasesInInference ==
    MergeCalled =>
        /\ (MergeWhenCompiling.err = "AssertionError") <=>
              \E k \in 1..Len(GroupsToMerge) :
                  \/ DtypeMismatch(GroupsToMerge[k])
                  \/ ~CommonBase(GroupsToMerge[k]) /\ (needs_autograd \/ SomeBase(GroupsToMerge[k]))
        /\ MergeWhenCompiling.err # "" => MergeWhenCompiling.val = <<>>

C12_Witness ==
    /\ MergeCalled
    /\ ~needs_autograd
    /\ MergeWhenCompiling.err = "AssertionError"
    /\ \E k \in 1..Len(GroupsToMerge) :
          /\ ~DtypeMismatch(GroupsToMerge[k])
          /\ SomeBase(GroupsToMerge[k]) /\ ~CommonBase(GroupsToMerge[k])

\* an input of dedupe.args is merged into a synthetic base and has a metadata mutation
MergedInputMutatesMetadata ==
    \E k \in 1..Len(GroupsToMerge) : \E j \in 1..Len(GroupsToMerge[k]) :
        At(dedupe.meta.input_info, GroupsToMerge[k][j]).mutates_metadata

\* C13 as stated: when aot_wrapper_dedupe takes strategy 2 for a list in which an
\* input is also merged into a synthetic base and has a metadata mutation,
\* compilation fails instead of producing a compiled function.
C13_Strategy2WithMergedMetadataMutationFails ==
    (dedupe.strategy = 2 /\ ~synth.none /\ Len(synth.idx) > 0) =>
        pc \notin {"compiled", "forward", "epilogue", "synthetic_epilogue", "returned"}

\* C13 as amended: the combination is not rejected.  When strategy 1 does not
\* apply aot_wrapper_dedupe either raises the IndexError of remove_dupe_metadata
\* or calls the inner compiler with the deduplicated list; when an input of that list is merged into a synthetic
\* base and has a metadata mutation, aot_wrapper_synthetic_base either raises
\* the AssertionError or IndexError of merge_view_inputs or
\* create_synthetic_base_metadata, or goes on to the inner compiler with every
\* such input as an extra output.
C13_Strategy2WithMergedMetadataMutationCompiles ==
    [][/\ (pc = "dedupe" /\ ~Strategy1Ok(heap, flat_args, fw_metadata)) =>
              \/ pc' = "synthetic_base" /\ dedupe'.strategy = 2 /\ error' = ""
              \/ pc' = "failed" /\ dedupe'.strategy = 0 /\ error' = "IndexError"
       /\ (MergeCalled /\ dedupe.strategy = 2 /\ MergedInputMutatesMetadata) =>
              \/ pc' = "failed" /\ error' \in {"AssertionError", "IndexError"}
              \/ /\ pc' = "dispatch"
                 /\ ~synth'.none
                 /\ Len(synth'.idx) > 0
                 /\ \A o \in 0..(Len(dedupe.args) - 1) :
                       (o \in Range(synth'.idx)) <=>
                           (At(dedupe.meta.input_info, o).mutates_metadata /\ At(synth'.info, o).tuple)]_vars

C13_Witness ==
    /\ pc = "returned"
    /\ dedupe.strategy = 2
    /\ ~synth.none
    /\ Len(synth.idx) > 0

\* position j (from 1) of the call's arguments holds a tensor an earlier position holds
Repeats(j) == heap[flat_args[j]].tensor /\ \E i \in 1..(j - 1) : flat_args[i] = flat_args[j]

\* C14: aot_wrapper_dedupe takes strategy 1 exactly when no second or later
\* occurrence of a tensor instance has a data or metadata mutation; it then
\* gives the inner compiler the original function, the original metadata and a
\* list of the original length in which every later occurrence is replaced by
\* its own detached copy, so that no tensor instance occurs twice; otherwise it
\* takes strategy 2 and the inner compiler receives a list without a repeated
\* instance.
C14_Strategy1IffDuplicatesUnmutated ==
    /\ pc \notin {"analyze", "dedupe"} => dedupe.strategy \in {1, 2}
    /\ dedupe.strategy # 0 =>
          ((dedupe.strategy = 1) <=>
              \A j \in 1..Len(flat_args) : Repeats(j) => ~IsMutated(fw_metadata.input_info[j]))
    /\ dedupe.strategy = 1 =>
          /\ dedupe.fn = flat_fn
          /\ dedupe.meta = fw_metadata
          /\ Len(dedupe.args) = Len(flat_args)
          /\ \A j \in 1..Len(flat_args) :
                IF Repeats(j)
                THEN /\ dedupe.args[j] \notin Range(flat_args)
                     /\ heap[dedupe.args[j]] =
                            [heap[flat_args[j]] EXCEPT !.base = 0, !.leaf = TRUE]
                ELSE dedupe.args[j] = flat_args[j]
          /\ \A i, j \in 1..Len(dedupe.args) :
                (i # j /\ heap[dedupe.args[i]].tensor) => dedupe.args[i] # dedupe.args[j]
    /\ dedupe.strategy = 2 =>
          /\ \A i, j \in 1..Len(dedupe.args) : i # j => dedupe.args[i] # dedupe.args[j]
          /\ Range(dedupe.args) \subseteq Range(flat_args)
          /\ \A j \in 1..Len(flat_args) : heap[flat_args[j]].tensor => flat_args[j] \in Range(dedupe.args)

C14_Witness ==
    /\ pc = "synthetic_base"
    /\ dedupe.strategy = 1
    /\ \E i, j \in 1..Len(flat_args) :
          /\ i + 1 < j
          /\ Repeats(j) /\ flat_args[i] = flat_args[j]
          /\ IsMutated(fw_metadata.input_info[i + 1])

\* the ids of the inputs of a graph
GraphInputs(g) == {g[k].id : k \in {j \in 1..Len(g) : g[j].op = "placeholder"}}

\* the copy_ nodes of a graph into the node with this id
CopiesInto(g, id) == {k \in 1..Len(g) : g[k].target = "aten.copy_.default" /\ g[k].arg = id}

\* assert_functional_graph accepted compiled.graph: on its own, or in aot_dispatch_base
GraphAccepted == pc = "graph_accepted" \/ (pc = "compiled" /\ ~compiled.trace_joint)

\* C15: a graph assert_functional_graph accepts has no operator with a mutable
\* schema other than copy_ into a graph input; a copy_ is accepted only when
\* allow_input_mutations is set and at most once per input; and the graph
\* aot_dispatch_base accepts with keep_inference_input_mutations has exactly
\* one copy_ for each input whose metadata claims a data-only mutation and none
\* for any other input.
C15_OnlyInputCopiesMutate ==
    /\ GraphAccepted =>
          \A k \in 1..Len(compiled.graph) :
              is_mutable(compiled.graph[k].target) =>
                  /\ compiled.graph[k].target = "aten.copy_.default"
                  /\ aot_config.keep_inference_input_mutations
                  /\ compiled.graph[k].arg \in GraphInputs(compiled.graph)
                  /\ Cardinality(CopiesInto(compiled.graph, compiled.graph[k].arg)) = 1
    /\ (pc = "compiled" /\ ~compiled.trace_joint /\ aot_config.keep_inference_input_mutations) =>
          /\ GraphInputs(compiled.graph) = 1..Len(compiled.meta.input_info)
          /\ \A i \in 1..Len(compiled.meta.input_info) :
                Cardinality(CopiesInto(compiled.graph, i))
                = IF IsDataOnly(compiled.meta.input_info[i]) THEN 1 ELSE 0

C15_Witness ==
    /\ pc = "compiled"
    /\ ~compiled.trace_joint
    /\ aot_config.keep_inference_input_mutations
    /\ \E i \in 1..Len(compiled.meta.input_info) : Cardinality(CopiesInto(compiled.graph, i)) = 1
    /\ \E i \in 1..Len(compiled.meta.input_info) :
          compiled.meta.input_info[i].mutates_data /\ compiled.meta.input_info[i].mutates_metadata

\* the call runs a forward compiled for inference with keep_input_mutations
KeptInference == ~compiled.trace_joint /\ compiled.keep_input_mutations

\* the writes of the log to the argument at 0-based position i of rt_args
WritesTo(by, i) == {k \in 1..Len(log) : log[k].by = by /\ log[k].arg = At(rt_args, i)}

\* C16: with keep_input_mutations on an inference compile, an input with a
\* data-only mutation is written inside the graph and is neither a leading
\* output nor updated by runtime_wrapper; an input with a metadata mutation,
\* with or without a data mutation, is a leading output and is updated by
\* runtime_wrapper; the leading outputs of fn_input_mutations_to_outputs are
\* the inputs of mutated_inp_runtime_indices in the same order, and the arity
\* assertions of runtime_wrapper hold.
C16_DataOnlyMutationsStayInGraph ==
    /\ (pc = "epilogue" /\ KeptInference) =>
          LET indices == mutated_inp_runtime_indices(compiled.meta) IN
          /\ ArityAsserts(compiled.meta, compiled.keep_input_mutations)
          /\ mutated_inputs_to_return(compiled.meta, aot_config.keep_inference_input_mutations) = indices
          /\ \A k \in 1..Len(indices) : all_outs[k] = UpdatedInput(indices[k])
          /\ \A i \in 0..(Len(rt_args) - 1) :
                LET x == At(compiled.meta.input_info, i) IN
                /\ (heap[At(rt_args, i)].tensor /\ IsDataOnly(x)) =>
                      /\ WritesTo("graph", i) # {}
                      /\ i \notin Range(indices)
                /\ x.mutates_metadata =>
                      /\ i \in Range(indices)
                      /\ WritesTo("graph", i) = {}
    /\ (RuntimeWrapperReturned /\ KeptInference) =>
          \A i \in 0..(Len(rt_args) - 1) :
              LET x == At(compiled.meta.input_info, i) IN
              /\ (heap[At(rt_args, i)].tensor /\ IsDataOnly(x)) => WritesTo("runtime_wrapper", i) = {}
              /\ x.mutates_metadata =>
                    \E k \in WritesTo("runtime_wrapper", i) : "as_strided_" \in log[k].op

C16_Witness ==
    /\ RuntimeWrapperReturned
    /\ KeptInference
    /\ \E i \in 0..(Len(rt_args) - 1) :
          /\ IsDataOnly(At(compiled.meta.input_info, i))
          /\ WritesTo("graph", i) # {}
    /\ \E i \in 0..(Len(rt_args) - 1) :
          /\ At(compiled.meta.input_info, i).mutates_metadata
          /\ At(compiled.meta.input_info, i).mutates_data
          /\ WritesTo("runtime_wrapper", i) # {}

\* the number of values runtime_wrapper expects of the compiled forward
ExpectedArity ==
    Len(mutated_inp_runtime_indices(compiled.meta)) + num_outputs(compiled.meta)
    + compiled.meta.num_intermediate_bases

\* C17: when the compiled forward returns a number of values other than the
\* number of runtime-applied mutated inputs + num_outputs +
\* num_intermediate_bases, runtime_wrapper fails with an AssertionError, has
\* modified no argument of the call and returns no outputs.
C17_WrongArityFailsBeforeUpdates ==
    [][(pc = "epilogue" /\ Len(all_outs) # ExpectedArity) =>
          /\ pc' = "raised"
          /\ error' = "AssertionError"
          /\ heap' = heap
          /\ store' = store
          /\ log' = log
          /\ outs' = <<>>]_vars

C17_Witness ==
    /\ pc = "raised"
    /\ error = "AssertionError"
    /\ all_outs # <<>>
    /\ Len(all_outs) # ExpectedArity
    /\ mutated_inp_runtime_indices(compiled.meta) # <<>>
    /\ \A k \in 1..Len(log) : log[k].by # "runtime_wrapper"

\* the inputs of a metadata with mutates_data or mutates_metadata
MutatedInputs(m) == {i \in 1..Len(m.input_info) : m.input_info[i].mutates_data \/ m.input_info[i].mutates_metadata}

\* C18: in every ViewAndMutationMeta of the analyzer, of remove_dupe_metadata
\* and of create_synthetic_base_metadata, len(requires_grad_info) is the number
\* of inputs with mutates_data or mutates_metadata plus len(output_info); the
\* assertion at the start of aot_dispatch_autograd and the assertion of
\* CompiledFunction.forward on requires_grad_info hold.
C18_RequiresGradInfoLength ==
    /\ \A m \in ProducedMetadata :
          Len(m.requires_grad_info) = Cardinality(MutatedInputs(m)) + Len(m.output_info)
    /\ (pc = "dispatch" /\ needs_autograd) =>
          Len(synth.meta.requires_grad_info) = num_mutated_inputs(synth.meta) + num_outputs(synth.meta)
    /\ (pc = "forward" /\ compiled.trace_joint) =>
          num_mutated_inputs(compiled.meta) + num_outputs(compiled.meta)
              + compiled.meta.num_intermediate_bases
          = Len(compiled.meta.requires_grad_info) + compiled.meta.num_intermediate_bases

C18_Witness ==
    /\ pc = "forward"
    /\ compiled.trace_joint
    /\ dedupe.strategy = 2
    /\ Len(dedupe.meta.input_info) < Len(fw_metadata.input_info)
    /\ Len(dedupe.meta.requires_grad_info) < Len(fw_metadata.requires_grad_info)
    /\ ~synth.none
    /\ Len(synth.meta.output_info) > Len(dedupe.meta.output_info)

\* C19: in every ViewAndMutationMeta of the analyzer, of remove_dupe_metadata
\* and of create_synthetic_base_metadata, traced_tangents has one entry per
\* data-mutated input, then one per tensor output of type non_alias or
\* unsafe_view_alias, then one per intermediate base; its length is the number
\* of true entries of the tangent mask of fn_prepped_for_autograd, and the
\* assertion len(outs_to_grad) == len(tangents) of create_joint holds.
C19_TracedTangentsMatchMask ==
    /\ \A m \in ProducedMetadata :
          /\ Len(m.traced_tangents)
             = CountWhere(m.input_info, LAMBDA x : x.mutates_data)
               + CountWhere(m.output_info, IsTangentOutput) + m.num_intermediate_bases
          /\ Len(m.traced_tangents)
             = Len(SelectSeq(out_grad_mask(m), LAMBDA needs_tangent : needs_tangent))
    /\ (pc = "dispatch" /\ needs_autograd) =>
          Len(SelectSeq(out_grad_mask(synth.meta), LAMBDA needs_tangent : needs_tangent))
          = Len(synth.meta.traced_tangents)

\* C20: whenever CompiledFunction.backward runs with gradient mode enabled and
\* one of its arguments requires grad, the compiled backward is invoked through
\* CompiledFunctionBackward; what backward returns requires grad only then, and
\* differentiating through it raises RuntimeError and returns no gradient.
C20_DoubleBackwardRaises ==
    /\ (backward.ran /\ backward.grad_enabled
        /\ \E k \in 1..Len(backward.flat_args) :
              backward.flat_args[k].tensor /\ backward.flat_args[k].requires_grad) =>
          backward.grad_fn = "CompiledFunctionBackward"
    /\ (backward.ran /\ backward.requires_grad) => backward.grad_fn = "CompiledFunctionBackward"
    /\ pc # "double_backward_returned"
    /\ (backward.ran /\ pc = "raised") => error = "RuntimeError"

C20_Witness ==
    /\ pc = "raised"
    /\ error = "RuntimeError"
    /\ backward.grad_fn = "CompiledFunctionBackward"
    /\ \E k \in 1..Len(backward.flat_args) :
          backward.flat_args[k].tensor /\ backward.flat_args[k].requires_grad
    /\ \E k \in 1..Len(backward.flat_args) : ~backward.flat_args[k].tensor
    /\ backward.saved_tensors = <<>>

\* C24: for every output of type is_input or alias_of_input, the base_idx that
\* remove_dupe_metadata writes is add_dupe_map[base_idx] of the analyzer's
\* base_idx: the position in the deduplicated arguments of the same argument
\* instance, also when the analyzer's base_idx is a position that was removed.
C24_BaseIdxFollowsAddDupeMap ==
    dedupe.strategy = 2 =>
        \A k \in 1..Len(fw_metadata.output_info) :
            fw_metadata.output_info[k].output_type \in {"is_input", "alias_of_input"} =>
                /\ dedupe.meta.output_info[k].base_idx
                   = Some(dedupe.map[Get(fw_metadata.output_info[k].base_idx)])
                /\ Key(heap, At(dedupe.args, Get(dedupe.meta.output_info[k].base_idx)))
                   = Key(heap, At(flat_args, Get(fw_metadata.output_info[k].base_idx)))

\* the types of the outputs whose base is an intermediate base or a user output
IntermediateTypes ==
    {"alias_of_intermediate", "alias_of_intermediate_save_as_output",
     "alias_of_intermediate_base_is_user_output"}

\* what an update of the metadata m into u leaves alone
FrameKept(m, u) ==
    /\ Len(u.output_info) >= Len(m.output_info)
    /\ \A k \in 1..Len(m.output_info) :
          /\ u.output_info[k].output_type = m.output_info[k].output_type
          /\ u.output_info[k].raw_type = m.output_info[k].raw_type
    /\ u.num_intermediate_bases = m.num_intermediate_bases
    /\ u.keep_input_mutations = m.keep_input_mutations

IntermediateBaseIdxKept(m, u) ==
    \A k \in 1..Len(m.output_info) :
        m.output_info[k].output_type \in IntermediateTypes =>
            u.output_info[k].base_idx = m.output_info[k].base_idx

\* C26: remove_dupe_metadata and create_synthetic_base_metadata leave every
\* original output's output_type and raw_type, num_intermediate_bases and
\* keep_input_mutations unchanged, and leave unchanged the base_idx of every
\* output of type alias_of_intermediate, alias_of_intermediate_save_as_output
\* or alias_of_intermediate_base_is_user_output.
C26_UpdatesKeepFrame ==
    /\ dedupe.strategy = 2 =>
          FrameKept(fw_metadata, dedupe.meta) /\ IntermediateBaseIdxKept(fw_metadata, dedupe.meta)
    /\ (pc = "dispatch" /\ ~synth.none) =>
          FrameKept(dedupe.meta, synth.meta) /\ IntermediateBaseIdxKept(dedupe.meta, synth.meta)

\* the metadata the analyzer returned: for the call, for the deduplicated
\* arguments and for the base-merged arguments
AnalyzedMetadata == {fw_metadata, dedupe.ref, synth.ref}

\* the number of intermediate bases allocated before output k (from 1)
BasesBefore(m, k) ==
    Cardinality({j \in 1..(k - 1) :
        m.output_info[j].output_type = "alias_of_intermediate_save_as_output"})

IntermediateBasesWellFormed(m) ==
    /\ m.num_intermediate_bases = BasesBefore(m, Len(m.output_info) + 1)
    /\ \A k \in 1..Len(m.output_info) :
          LET o == m.output_info[k] IN
          /\ o.output_type = "alias_of_intermediate_save_as_output" =>
                o.base_idx = Some(BasesBefore(m, k))
          /\ o.output_type = "alias_of_intermediate" =>
                o.base_idx # None /\ Get(o.base_idx) < BasesBefore(m, k)
          /\ o.output_type = "alias_of_intermediate_base_is_user_output" =>
                /\ o.base_idx # None
                /\ Get(o.base_idx) \in 0..(Len(m.output_info) - 1)
                /\ Get(o.base_idx) # k - 1
    /\ m.num_intermediate_bases > 0 => num_outputs_aliased(m) > 0

MutatedPosition(m, x) ==
    Cardinality({j \in 0..(x - 1) : IsMutated(At(m.input_info, j))})

\* some outer argument that inner argument inner_idx stands for is a mutated
\* input whose requires_grad_info entry is true
StandsForMutatedRequiringGrad(m, synthetic_base_info, inner_idx) ==
    \E x \in Range(outer_indices_of(synthetic_base_info, inner_idx)) :
        /\ IsMutated(At(m.input_info, x))
        /\ MutatedPosition(m, x) < Len(m.requires_grad_info)
        /\ At(m.requires_grad_info, MutatedPosition(m, x))

\* C30: in the metadata of create_synthetic_base_metadata the requires_grad
\* entry of each mutated post-merge input is true exactly when one of the outer
\* arguments it stands for is a mutated input whose own requires_grad_info
\* entry is true, and the entries of the user outputs are carried over
\* unchanged and in order.
C30_SyntheticBaseRequiresGrad ==
    (pc = "dispatch" /\ ~synth.none) =>
        LET m == dedupe.meta
            u == synth.meta
            mutated_inner == IndicesWhere(u.input_info, IsMutated)
            num_outer == CountWhere(m.input_info, IsMutated) IN
        /\ \A k \in 1..Len(mutated_inner) :
              u.requires_grad_info[k]
              <=> StandsForMutatedRequiringGrad(m, synth.info, mutated_inner[k])
        /\ \A k \in 1..Len(m.output_info) :
              u.requires_grad_info[Len(mutated_inner) + k] = m.requires_grad_info[num_outer + k]

\* C25: for every output classified is_input, the call returns at that position
\* the very object the caller passed as the corresponding argument, also when
\* the argument was merged into a synthetic base or was a duplicate removed by
\* strategy 2.
C25_IsInputReturnsArgument ==
    pc = "returned" =>
        \A k \in 1..Len(fw_metadata.output_info) :
            fw_metadata.output_info[k].output_type = "is_input" =>
                /\ k <= Len(outs)
                /\ outs[k].how = "input"
                /\ outs[k].base = <<"arg", At(flat_args, flat_fn.outs[k].idx)>>

\* the entries of l at the positions where out_grad_mask(meta) is true, in order
AtTangentPositions(meta, l) ==
    LET kept == SelectSeq([k \in 1..Len(l) |-> k],
                          LAMBDA k : k <= Len(out_grad_mask(meta)) /\ out_grad_mask(meta)[k]) IN
    [j \in 1..Len(kept) |-> l[kept[j]]]

\* num_mutated_inputs + num_outputs + num_intermediate_bases
expected_grad_outs(meta) ==
    num_outputs(meta) + num_mutated_inputs(meta) + meta.num_intermediate_bases

UnwrappedByRuntimeWrapper ==
    LET meta == compiled.meta IN
    {i + 1 : i \in {j \in 0..(Len(mutated_inp_runtime_indices(meta)) - 1) :
        LET info == At(meta.input_info, At(mutated_inp_runtime_indices(meta), j)) IN
        info.mutates_metadata /\ ~info.mutates_data}}
    \cup {num_mutated_inputs(meta) + i + 1 : i \in {j \in 0..(Len(meta.output_info) - 1) :
            At(meta.output_info, j).output_type \notin {"non_alias", "unsafe_view_alias"}}}

\* C27: CompiledFunction.forward wraps in TensorAlias exactly the returned
\* values that are inputs with a metadata-only mutation or outputs that alias
\* (never an intermediate base, never a non_alias or unsafe_view_alias output),
\* which are exactly the values runtime_wrapper unwraps when trace_joint is
\* set, and it marks as non-differentiable exactly the returned tensors among
\* the mutated inputs and the outputs whose requires_grad_info entry is false.
C27_WrappedAndMarked ==
    (compiled.trace_joint /\ pc \in {"epilogue", "synthetic_epilogue", "returned"}) =>
        LET meta == compiled.meta
            nmi == num_mutated_inputs(meta) IN
        \A k \in 1..Len(all_outs) :
            /\ all_outs[k].alias <=> k \in UnwrappedByRuntimeWrapper
            /\ all_outs[k].alias =>
                  \/ /\ k <= nmi
                     /\ IsMutated(At(meta.input_info, At(mutated_inp_indices(meta), k - 1)))
                     /\ ~At(meta.input_info, At(mutated_inp_indices(meta), k - 1)).mutates_data
                  \/ /\ k > nmi /\ k <= nmi + num_outputs(meta)
                     /\ (k - 1 - nmi) \in Range(aliased_out_indices(meta))
            /\ all_outs[k].non_differentiable <=>
                  /\ k <= nmi + num_outputs(meta)
                  /\ ~all_outs[k].alias
                  /\ (k > nmi => At(meta.output_info, k - 1 - nmi).raw_type = "Tensor")
                  /\ ~meta.requires_grad_info[k]

C27_Witness ==
    /\ pc = "returned"
    /\ compiled.trace_joint
    /\ compiled.meta.num_intermediate_bases > 0
    /\ \E k \in 1..Len(all_outs) : ~all_outs[k].alias /\ ~all_outs[k].non_differentiable
    /\ \E k \in 1..Len(all_outs) : all_outs[k].non_differentiable
    /\ \E k \in 1..Len(all_outs) : all_outs[k].alias

\* a step that is a call of CompiledFunction.backward
IsBackwardCall == backward'.calls = backward.calls + 1

\* C21: over the forward and backward calls of one compiled function, the
\* backward compiler is not called before the first backward call; a backward
\* call that finds a compiled backward calls no compiler and leaves it as it
\* is; a backward call that finds none and returns has called the compiler
\* once and stored its result; a backward call that raises stores nothing, so
\* the next one compiles again; no other step touches the compiled backward
BackwardCompiledLazily ==
    /\ backward.calls = 0 => backward.bw_compiler_calls = 0 /\ compiled.compiled_bw = None
    /\ IF IsBackwardCall THEN
          /\ compiled.compiled_bw # None =>
                /\ backward'.bw_compiler_calls = backward.bw_compiler_calls
                /\ compiled' = compiled
          /\ compiled.compiled_bw = None /\ pc' = "backward_returned" =>
                /\ backward'.bw_compiler_calls = backward.bw_compiler_calls + 1
                /\ compiled'.compiled_bw = aot_config.bw_compiler
                /\ compiled'.compiled_bw # None
          /\ compiled.compiled_bw = None /\ pc' = "backward_raised" =>
                /\ backward'.bw_compiler_calls \in {backward.bw_compiler_calls,
                                                    backward.bw_compiler_calls + 1}
                /\ compiled'.compiled_bw = None
       ELSE
          /\ backward'.bw_compiler_calls = backward.bw_compiler_calls
          /\ compiled'.compiled_bw = compiled.compiled_bw
             \/ (pc = "dispatch" /\ compiled'.compiled_bw = None)

C21_BackwardCompiledOnFirstUse == [][BackwardCompiledLazily]_vars

\* a second backward call returned after the backward compiler raised in the
\* first: the compiler was called twice, and the second result is stored
C21_Witness ==
    /\ pc = "backward_returned"
    /\ backward.calls = 2
    /\ backward.bw_compiler_calls = 2
    /\ compiled.compiled_bw # None

\* a second backward call reused the compiled backward of the first
C21_WitnessReuse ==
    /\ pc = "backward_returned"
    /\ backward.calls = 2
    /\ backward.bw_compiler_calls = 1

\* C22: over the calls of one function returned by aot_function,
\* create_aot_dispatcher_function runs only while nothing is cached; the
\* compilation that succeeds stores the artifact, which no later step
\* replaces; a call that finds it goes to the compiled function, whatever its
\* arguments, and the analysis is left as it was; a compilation that raises
\* stores nothing and the next call analyzes again
CachedOnce ==
    /\ pc \in {"analyze", "dedupe", "synthetic_base", "dispatch"} => compiled = NoCompiled
    /\ pc = "dispatch" /\ pc' = "compiled" => compiled' # NoCompiled
    /\ pc' = "failed" => compiled' = NoCompiled
    /\ compiled # NoCompiled =>
          /\ [compiled' EXCEPT !.compiled_bw = None] = [compiled EXCEPT !.compiled_bw = None]
          /\ <<fw_metadata, dedupe, synth>>' = <<fw_metadata, dedupe, synth>>
          /\ pc' \notin {"analyze", "dedupe", "synthetic_base", "dispatch", "failed"}
    /\ pc \in {"failed", "raised", "returned", "backward_returned", "backward_raised"}
       /\ pc' \in {"analyze", "compiled"} =>
          /\ pc' = "compiled" <=> compiled # NoCompiled
          /\ pc' = "analyze" <=> compiled = NoCompiled
          /\ pc' = "analyze" => fw_metadata' = NoMeta

C22_CompiledOncePerFunction == [][CachedOnce]_vars

\* a later call, after a backward, returned from the cached function on
\* arguments other than those it was compiled for
C22_Witness ==
    /\ pc = "returned"
    /\ backward.calls > 0
    /\ compiled # NoCompiled
    /\ \A i \in 1..Len(dedupe.args) : dedupe.args[i] \in Tensors
    /\ dedupe.strategy = 1
    /\ dedupe.args # flat_args

\* C23: the AOTConfig aot_function builds carries the inference_compiler it
\* was given, or fw_compiler when it was given None, and a call that needs no
\* autograd has its graph compiled by the inference_compiler of the AOTConfig:
\* so by the inference_compiler the caller gave and not by fw_compiler
GivenInferenceCompilerCompiles ==
    /\ pc = "aot_function" =>
          aot_config'.inference_compiler =
              IF aot_config.inference_compiler = None THEN aot_config.fw_compiler
              ELSE aot_config.inference_compiler
    /\ pc = "dispatch" /\ pc' = "compiled" /\ ~needs_autograd =>
          compiled'.compiler = aot_config.inference_compiler

C23_InferenceCompilerCompilesInference == [][GivenInferenceCompilerCompiles]_vars

====
